---- MODULE Spec2Model ----
(***************************************************************************)
(* Pep/8 terminal tools: the simulator (src/pep8.cpp) and the assembler    *)
(* (src/asem8.cpp) as state machines.                                      *)
(*                                                                         *)
(* A register is the pair of ints the source keeps (iHigh, iLow); the      *)
(* source never reduces the halves to bytes itself, so the model keeps     *)
(* them as unbounded integers and computes them as the source does.        *)
(* Memory is the int array iMemory, kept here as the finite function of    *)
(* the cells that were written or installed over a fixed image of the      *)
(* remaining cells.                                                        *)
(***************************************************************************)
EXTENDS Integers, Sequences, FiniteSets, TLC

VARIABLES
    iMemory,            \* cells installed or written: index -> int
    iRomStartAddr,      \* first ROM address
    stray,              \* content of the storage that lies outside iMemory
    sR_Accumulator,
    sR_IndexRegister,
    sR_StackPointer,
    sR_ProgramCounter,
    sIR_InstrRegister,  \* [iInstr_Spec, sR_OprndSpec]
    bStatusN,
    bStatusZ,
    bStatusV,
    bStatusC,
    Halt,               \* StartExecution's loop variable
    cycle,              \* position in the loop: "fetch" or "execute"
    R0,                 \* the operand register LoadReg filled last
    trace,              \* history: mnemonics executed so far
    trapBoundary,       \* history: registers at the last trap-issuing boundary
    callBoundary,       \* history: SP and PC when the last CALL was executed
    runError,           \* the runtime error the last instruction printed
    eTraceMode,
    bSingleStep,
    bScrollingTrace,
    iLineCount,         \* StartExecution's count of the lines on the page
    numTerminalLines,
    TraceAddr,          \* StartExecution's copy of the program counter
    traceAnswer,        \* history: the last answer to a trace prompt in
                        \* the run, "" while there is none
    dump,               \* the dump command: the locals of Dump, its output
                        \* and the range it was asked for
    alu,                \* the adder/subtractor unit applied to a pair of words
    sUnimpMnemon,       \* trap registry: iAddrMode of the eight entries
    codec,              \* a statement, its object code and what the fetch decodes
    phase,              \* position in the assembler's main
    srcLines,           \* history: the source lines read so far
    iCodeIndex,
    pACode,             \* code object per line, indexed from 1 (line 0 first)
    iCurrentAddress,
    pSymbol,            \* symbol table, ascending by identifier
    pUndeclaredSym,     \* symbols used as operands, in order of use
    bTerminate,
    iLineErrors,        \* main's array, indexed from 0
    iErrorIndex,
    iScan,              \* main's index i into iLineErrors
    objectFile,
    iBurnCounter,       \* the .BURN statements accepted so far
    iBurnAddr,          \* the address counter at the .BURN statement
    iBurnStart,         \* the operand of .BURN, then the burn offset
    pEquate,            \* symbols defined by .EQUATE, the latest first
    mainReturn,         \* the assembler's main: whether it returned, and what
    trapLines           \* history: the trap-file lines main has handed to
                        \* vGetTrapLine (empty where the model starts later)

cpuVars == <<iMemory, iRomStartAddr, stray, sR_Accumulator, sR_IndexRegister,
             sR_StackPointer, sR_ProgramCounter, sIR_InstrRegister,
             bStatusN, bStatusZ, bStatusV, bStatusC, Halt, cycle, R0,
             trace, trapBoundary, callBoundary, runError,
             eTraceMode, bSingleStep, bScrollingTrace, iLineCount,
             numTerminalLines, TraceAddr, traceAnswer, dump>>

asmVars == <<sUnimpMnemon, phase, srcLines, iCodeIndex, pACode, iCurrentAddress,
             pSymbol, pUndeclaredSym, bTerminate, iLineErrors, iErrorIndex,
             iScan, objectFile, iBurnCounter, iBurnAddr, iBurnStart, pEquate,
             mainReturn, trapLines>>

burnVars == <<iBurnCounter, iBurnAddr, iBurnStart, pEquate>>

nonCpuVars == <<alu, codec, asmVars>>

vars == <<cpuVars, nonCpuVars>>

(***************************************************************************)
(* Constants of pep8.cpp                                                   *)
(***************************************************************************)
MEMORY_SIZE == 65536

TOP_OF_MEMORY == 65535

USER_SP == 65528

SYSTEM_SP == 65530

LOADER_PC == 65532

INTR_PC == 65534

UNARY_OPCODES == 15

(***************************************************************************)
(* C integer division and remainder (truncation toward zero).              *)
(***************************************************************************)
CDiv(a, b) == IF a >= 0 THEN a \div b ELSE -((-a) \div b)

CMod(a, b) == a - b * CDiv(a, b)

BoolInt(b) == IF b THEN 1 ELSE 0

Reg(h, l) == [iHigh |-> h, iLow |-> l]

sR_AtZero == Reg(0, 0)

sR_One == Reg(0, 1)

sR_Two == Reg(0, 2)

sR_NegOne == Reg(255, 255)

sR_NegTwo == Reg(255, 254)

sR_NegThree == Reg(255, 253)

(***************************************************************************)
(* The one-word adder and subtractor.                                      *)
(***************************************************************************)
AdderDropsCarryIn(Op1, Op2) ==
    LET t1   == Op1.iLow + Op2.iLow
        low  == IF t1 > 255 THEN t1 - 256 ELSE t1
        t2   == Op1.iHigh + Op2.iHigh
        high == IF t2 > 255 THEN t2 - 256 ELSE t2
    IN  [Result |-> Reg(high, low),
         Carry  |-> t2 > 255,
         Ovflw  |-> \/ (Op1.iHigh <= 127 /\ Op2.iHigh <= 127 /\ high > 127)
                    \/ (Op1.iHigh >= 128 /\ Op2.iHigh >= 128 /\ high < 128)]

Adder(Op1, Op2) ==
    LET t1   == Op1.iLow + Op2.iLow
        low  == IF t1 > 255 THEN t1 - 256 ELSE t1
        t2   == IF t1 > 255 THEN Op1.iHigh + Op2.iHigh + 1
                            ELSE Op1.iHigh + Op2.iHigh
        high == IF t2 > 255 THEN t2 - 256 ELSE t2
    IN  [Result |-> Reg(high, low),
         Carry  |-> t2 > 255,
         Ovflw  |-> \/ (Op1.iHigh <= 127 /\ Op2.iHigh <= 127 /\ high > 127)
                    \/ (Op1.iHigh >= 128 /\ Op2.iHigh >= 128 /\ high < 128)]

FastAdder(Op1, Op2) ==
    LET t1   == Op1.iLow + Op2.iLow
        low  == IF t1 > 255 THEN t1 - 256 ELSE t1
        t2   == IF t1 > 255 THEN Op1.iHigh + Op2.iHigh + 1
                            ELSE Op1.iHigh + Op2.iHigh
        high == IF t2 > 255 THEN t2 - 256 ELSE t2
    IN  Reg(high, low)

SubtractorCarryOut(Op1, Op2) ==
    LET t1   == Op1.iLow - Op2.iLow
        low  == IF t1 < 0 THEN t1 + 256 ELSE t1
        t2   == IF t1 < 0 THEN Op1.iHigh - Op2.iHigh - 1
                          ELSE Op1.iHigh - Op2.iHigh
        high == IF t2 < 0 THEN t2 + 256 ELSE t2
    IN  [Result |-> Reg(high, low),
         Carry  |-> t2 >= 0,
         Ovflw  |-> \/ (Op1.iHigh <= 127 /\ Op2.iHigh >= 128 /\ high > 127)
                    \/ (Op1.iHigh >= 128 /\ Op2.iHigh <= 127 /\ high < 128)]

Subtractor(Op1, Op2) ==
    LET t1   == Op1.iLow - Op2.iLow
        low  == IF t1 < 0 THEN t1 + 256 ELSE t1
        t2   == IF t1 < 0 THEN Op1.iHigh - Op2.iHigh - 1
                          ELSE Op1.iHigh - Op2.iHigh
        high == IF t2 < 0 THEN t2 + 256 ELSE t2
    IN  [Result |-> Reg(high, low),
         Carry  |-> t2 < 0,
         Ovflw  |-> \/ (Op1.iHigh <= 127 /\ Op2.iHigh >= 128 /\ high > 127)
                    \/ (Op1.iHigh >= 128 /\ Op2.iHigh <= 127 /\ high < 128)]

(***************************************************************************)
(* Decoding the instruction specifier.                                     *)
(***************************************************************************)
GetAddressingModeOneBit(iInstr_Spec) ==
    IF CMod(iInstr_Spec, 2) = 0 THEN 0 ELSE 5

GetAddressingModeThreeBits(iInstr_Spec) == CMod(iInstr_Spec, 8)

GetRegisterTypeLastBit(iInstr_Spec) == CMod(iInstr_Spec, 2)

GetRegisterTypeFourthBit(iInstr_Spec) == CMod(CDiv(iInstr_Spec, 8), 2)

GetNValueThreeBits(iInstr_Spec) == CMod(iInstr_Spec, 8)

instr_SpecToMnemon(s) ==
    IF s = 0 THEN "eM_STOP"
    ELSE IF s = 1 THEN "eM_RETTR"
    ELSE IF s = 2 THEN "eM_MOVSPA"
    ELSE IF s = 3 THEN "eM_MOVFLGA"
    ELSE IF s <= 5 THEN "eM_BR"
    ELSE IF s <= 7 THEN "eM_BRLE"
    ELSE IF s <= 9 THEN "eM_BRLT"
    ELSE IF s <= 11 THEN "eM_BREQ"
    ELSE IF s <= 13 THEN "eM_BRNE"
    ELSE IF s <= 15 THEN "eM_BRGE"
    ELSE IF s <= 17 THEN "eM_BRGT"
    ELSE IF s <= 19 THEN "eM_BRV"
    ELSE IF s <= 21 THEN "eM_BRC"
    ELSE IF s <= 23 THEN "eM_CALL"
    ELSE IF s <= 25 THEN "eM_NOTr"
    ELSE IF s <= 27 THEN "eM_NEGr"
    ELSE IF s <= 29 THEN "eM_ASLr"
    ELSE IF s <= 31 THEN "eM_ASRr"
    ELSE IF s <= 33 THEN "eM_ROLr"
    ELSE IF s <= 35 THEN "eM_RORr"
    ELSE IF s = 36 THEN "eM_UNIMP0"
    ELSE IF s = 37 THEN "eM_UNIMP1"
    ELSE IF s = 38 THEN "eM_UNIMP2"
    ELSE IF s = 39 THEN "eM_UNIMP3"
    ELSE IF s <= 47 THEN "eM_UNIMP4"
    ELSE IF s <= 55 THEN "eM_UNIMP5"
    ELSE IF s <= 63 THEN "eM_UNIMP6"
    ELSE IF s <= 71 THEN "eM_UNIMP7"
    ELSE IF s <= 79 THEN "eM_CHARI"
    ELSE IF s <= 87 THEN "eM_CHARO"
    ELSE IF s <= 95 THEN "eM_RETn"
    ELSE IF s <= 103 THEN "eM_ADDSP"
    ELSE IF s <= 111 THEN "eM_SUBSP"
    ELSE IF s <= 127 THEN "eM_ADDr"
    ELSE IF s <= 143 THEN "eM_SUBr"
    ELSE IF s <= 159 THEN "eM_ANDr"
    ELSE IF s <= 175 THEN "eM_ORr"
    ELSE IF s <= 191 THEN "eM_CPr"
    ELSE IF s <= 207 THEN "eM_LDr"
    ELSE IF s <= 223 THEN "eM_LDBYTEr"
    ELSE IF s <= 239 THEN "eM_STr"
    ELSE "eM_STBYTEr"

ProcessAddressingMode(AddrMode) ==
    CASE AddrMode = 0 -> "eA_IMMEDIATE"
      [] AddrMode = 1 -> "eA_DIRECT"
      [] AddrMode = 2 -> "eA_INDIRECT"
      [] AddrMode = 3 -> "eA_STACK_REL"
      [] AddrMode = 4 -> "eA_STACK_REL_DEF"
      [] AddrMode = 5 -> "eA_INDEXED"
      [] AddrMode = 6 -> "eA_STACK_IND"
      [] AddrMode = 7 -> "eA_STACK_IND_DEF"
      [] OTHER -> "eA_IMMEDIATE"

ProcessRegisterType(RegType) ==
    CASE RegType = 0 -> "eR_R_IS_ACCUMULATOR"
      [] RegType = 1 -> "eR_R_IS_INDEX_REG"
      [] OTHER -> "eR_R_IS_ACCUMULATOR"

\* The table Initialize fills; bSearchIntArray looks a mnemonic up in it.
iUnaryOpcodesWithoutRETn ==
    <<"eM_STOP", "eM_RETTR", "eM_MOVSPA", "eM_MOVFLGA", "eM_NOTr", "eM_NEGr",
      "eM_ASLr", "eM_ASRr", "eM_ROLr", "eM_RORr", "eM_UNIMP0", "eM_UNIMP1",
      "eM_UNIMP2", "eM_UNIMP3", "eM_UNIMP3">>

iUnaryOpcodes ==
    <<"eM_STOP", "eM_RETTR", "eM_MOVSPA", "eM_MOVFLGA", "eM_NOTr", "eM_NEGr",
      "eM_ASLr", "eM_ASRr", "eM_ROLr", "eM_RORr", "eM_UNIMP0", "eM_UNIMP1",
      "eM_UNIMP2", "eM_UNIMP3", "eM_RETn">>

\* The search stops at the first entry equal to iNum; the sentinel stored at
\* index iArrayLength ends it when no earlier entry matches.
bSearchIntArray(iArray, iArrayLength, iNum) ==
    \E i \in 1..iArrayLength : iArray[i] = iNum

(***************************************************************************)
(* Memory.  InstallRom copies the bytes of the operating-system file to    *)
(* the top of iMemory and sets iRomStartAddr; the cells below hold what    *)
(* the load of an object program left there (RamImage).                    *)
(***************************************************************************)
iNumBytes == 16

\* The operating-system file of the model: a trap handler that returns at
\* once (RETTR), a loader entry (STOP), padding, and the four vectors:
\* user SP, system SP (T), loader PC, trap-handler PC.
ROMFile(T) ==
    <<1, 0, 0, 0, 0, 0, 0, 0,
      251, 207, T \div 256, T % 256, 255, 241, 255, 240>>

InstallRom(file) ==
    [i \in (TOP_OF_MEMORY - Len(file) + 1)..TOP_OF_MEMORY |->
        file[i - (TOP_OF_MEMORY - Len(file) + 1) + 1]]

RamImage(i) == (i * 89 + 7) % 256

Cell(mem, i) ==
    IF i \in DOMAIN mem THEN mem[i]
    ELSE IF i \in 0..TOP_OF_MEMORY THEN RamImage(i)
    ELSE stray

Store(mem, i, v) ==
    [j \in DOMAIN mem \cup {i} |-> IF j = i THEN v ELSE mem[j]]

MemRead(mem, Loc) ==
    IF Loc.iHigh < MEMORY_SIZE \div 256
    THEN LET iTemp == Loc.iHigh * 256 + Loc.iLow
         IN  Reg(Cell(mem, iTemp),
                 IF iTemp < TOP_OF_MEMORY THEN Cell(mem, iTemp + 1) ELSE 0)
    ELSE Reg(0, 0)

MemByteRead(mem, Loc) ==
    IF Loc.iHigh < MEMORY_SIZE \div 256
    THEN Cell(mem, Loc.iHigh * 256 + Loc.iLow)
    ELSE 0

MemWriteUnguarded(mem, r, Loc) ==
    IF Loc.iHigh < MEMORY_SIZE \div 256
    THEN LET iTemp == Loc.iHigh * 256 + Loc.iLow
         IN  Store(Store(mem, iTemp, r.iHigh), iTemp + 1, r.iLow)
    ELSE mem

MemWriteAllOrNothing(mem, r, Loc) ==
    IF Loc.iHigh < MEMORY_SIZE \div 256
    THEN LET iTemp == Loc.iHigh * 256 + Loc.iLow
         IN  IF iTemp < iRomStartAddr - 1
             THEN Store(Store(mem, iTemp, r.iHigh), iTemp + 1, r.iLow)
             ELSE mem
    ELSE mem

MemWrite(mem, r, Loc) ==
    IF Loc.iHigh < MEMORY_SIZE \div 256
    THEN LET iTemp == Loc.iHigh * 256 + Loc.iLow
             m1 == IF iTemp < iRomStartAddr
                   THEN Store(mem, iTemp, r.iHigh) ELSE mem
         IN  IF iTemp < iRomStartAddr - 1
             THEN Store(m1, iTemp + 1, r.iLow) ELSE m1
    ELSE mem

MemByteWrite(mem, iByte, Loc) ==
    IF Loc.iHigh < MEMORY_SIZE \div 256
    THEN LET iTemp == Loc.iHigh * 256 + Loc.iLow
         IN  IF iTemp < iRomStartAddr THEN Store(mem, iTemp, iByte) ELSE mem
    ELSE mem

(***************************************************************************)
(* Operand access.  AddrProcessor yields the operand in immediate mode and *)
(* the operand's address in the other seven modes.                         *)
(***************************************************************************)
AddrProcessorSwapped(eA_AddrMode, mem, OprndSpec, X, SP) ==
    CASE eA_AddrMode = "eA_IMMEDIATE" -> OprndSpec
      [] eA_AddrMode = "eA_DIRECT" -> OprndSpec
      [] eA_AddrMode = "eA_INDIRECT" -> MemRead(mem, OprndSpec)
      [] eA_AddrMode = "eA_STACK_REL" -> FastAdder(X, OprndSpec)
      [] eA_AddrMode = "eA_STACK_REL_DEF" ->
            MemRead(mem, FastAdder(X, OprndSpec))
      [] eA_AddrMode = "eA_INDEXED" -> FastAdder(SP, OprndSpec)
      [] eA_AddrMode = "eA_STACK_IND" ->
            FastAdder(FastAdder(X, OprndSpec), SP)
      [] eA_AddrMode = "eA_STACK_IND_DEF" ->
            FastAdder(MemRead(mem, FastAdder(X, OprndSpec)), SP)

AddrProcessorExtraDeref(eA_AddrMode, mem, OprndSpec, X, SP) ==
    CASE eA_AddrMode = "eA_IMMEDIATE" -> OprndSpec
      [] eA_AddrMode = "eA_DIRECT" -> OprndSpec
      [] eA_AddrMode = "eA_INDIRECT" -> MemRead(mem, OprndSpec)
      [] eA_AddrMode = "eA_STACK_REL" -> FastAdder(SP, OprndSpec)
      [] eA_AddrMode = "eA_STACK_REL_DEF" ->
            MemRead(mem, FastAdder(SP, OprndSpec))
      [] eA_AddrMode = "eA_INDEXED" -> FastAdder(X, OprndSpec)
      [] eA_AddrMode = "eA_STACK_IND" ->
            FastAdder(MemRead(mem, FastAdder(SP, OprndSpec)), X)
      [] eA_AddrMode = "eA_STACK_IND_DEF" ->
            FastAdder(MemRead(mem, MemRead(mem, FastAdder(SP, OprndSpec))), X)

AddrProcessor(eA_AddrMode, mem, OprndSpec, X, SP) ==
    CASE eA_AddrMode = "eA_IMMEDIATE" -> OprndSpec
      [] eA_AddrMode = "eA_DIRECT" -> OprndSpec
      [] eA_AddrMode = "eA_INDIRECT" -> MemRead(mem, OprndSpec)
      [] eA_AddrMode = "eA_STACK_REL" -> FastAdder(SP, OprndSpec)
      [] eA_AddrMode = "eA_STACK_REL_DEF" ->
            MemRead(mem, FastAdder(SP, OprndSpec))
      [] eA_AddrMode = "eA_INDEXED" -> FastAdder(X, OprndSpec)
      [] eA_AddrMode = "eA_STACK_IND" ->
            FastAdder(FastAdder(SP, OprndSpec), X)
      [] eA_AddrMode = "eA_STACK_IND_DEF" ->
            FastAdder(MemRead(mem, FastAdder(SP, OprndSpec)), X)

LoadRegAddressOnly(eA_AddrMode, mem, OprndSpec, X, SP) ==
    AddrProcessor(eA_AddrMode, mem, OprndSpec, X, SP)

LoadReg(eA_AddrMode, mem, OprndSpec, X, SP) ==
    LET Operand == AddrProcessor(eA_AddrMode, mem, OprndSpec, X, SP)
    IN  IF eA_AddrMode = "eA_IMMEDIATE" THEN Operand
        ELSE MemRead(mem, Operand)

SetNZBits(r) ==
    [N |-> r.iHigh > 127, Z |-> (r.iHigh = 0 /\ r.iLow = 0)]

(***************************************************************************)
(* The fetch half of the von Neumann cycle.  A unary instruction leaves    *)
(* the operand specifier of the instruction register as it was.            *)
(***************************************************************************)
IncrPCbyOneNoWrap(pc) ==
    IF pc.iLow = 255
    THEN Reg(pc.iHigh + 1, 0)
    ELSE Reg(pc.iHigh, pc.iLow + 1)

IncrPCbyOne(pc) ==
    IF pc.iLow = 255
    THEN Reg(IF pc.iHigh = 255 THEN 0 ELSE pc.iHigh + 1, 0)
    ELSE Reg(pc.iHigh, pc.iLow + 1)

IncrPCbyTwo(pc) ==
    IF pc.iLow = 254
    THEN Reg(IF pc.iHigh = 255 THEN 0 ELSE pc.iHigh + 1, 0)
    ELSE IF pc.iLow = 255
    THEN Reg(IF pc.iHigh = 255 THEN 0 ELSE pc.iHigh + 1, 1)
    ELSE Reg(pc.iHigh, pc.iLow + 2)

MaxSteps == 3

\* The instructions of the traced runs.
MaxTraced == 4

\* The instruction register and the program counter FetchIncrPC leaves.
Fetch(mem, pc, ir) ==
    LET spec == MemByteRead(mem, pc)
        pc1  == IncrPCbyOne(pc)
    IN  IF bSearchIntArray(iUnaryOpcodes, UNARY_OPCODES,
                           instr_SpecToMnemon(spec))
        THEN [IR |-> [iInstr_Spec |-> spec, sR_OprndSpec |-> ir.sR_OprndSpec],
              PC |-> pc1]
        ELSE [IR |-> [iInstr_Spec |-> spec,
                      sR_OprndSpec |-> MemRead(mem, pc1)],
              PC |-> IncrPCbyTwo(pc1)]

FetchIncrPC ==
    /\ ~Halt
    /\ cycle = "fetch"
    /\ Len(trace) < (IF eTraceMode = "eT_TR_OFF" THEN MaxSteps ELSE MaxTraced)
    /\ TraceAddr' = sR_ProgramCounter
    /\ sIR_InstrRegister' =
          Fetch(iMemory, sR_ProgramCounter, sIR_InstrRegister).IR
    /\ sR_ProgramCounter' =
          Fetch(iMemory, sR_ProgramCounter, sIR_InstrRegister).PC
    /\ cycle' = "execute"
    /\ UNCHANGED <<iMemory, iRomStartAddr, stray, sR_Accumulator,
                   sR_IndexRegister, sR_StackPointer, bStatusN, bStatusZ,
                   bStatusV, bStatusC, Halt, R0, trace, trapBoundary,
                   callBoundary, runError, eTraceMode, bSingleStep,
                   bScrollingTrace, iLineCount, numTerminalLines,
                   traceAnswer, dump>>
    /\ UNCHANGED nonCpuVars

(***************************************************************************)
(* The execute half: Execute dispatches on the mnemonic of the fetched     *)
(* instruction specifier.  Cur is the machine after the fetch and before   *)
(* the handler; Commit installs the handler's result and returns to the    *)
(* head of the loop.                                                       *)
(***************************************************************************)
Execute(mn) ==
    /\ cycle = "execute"
    /\ instr_SpecToMnemon(sIR_InstrRegister.iInstr_Spec) = mn

NoRunError == [message |-> "none", LastLoc |-> Reg(0, 0)]

\* The address PrntRunLoc prints: the increment of the fetch undone.
PrntRunLocNoRewind == sR_ProgramCounter

PrntRunLoc ==
    IF bSearchIntArray(iUnaryOpcodes, UNARY_OPCODES,
                       instr_SpecToMnemon(sIR_InstrRegister.iInstr_Spec))
    THEN FastAdder(sR_ProgramCounter, sR_NegOne)
    ELSE FastAdder(sR_ProgramCounter, sR_NegThree)

Cur ==
    [A |-> sR_Accumulator, X |-> sR_IndexRegister, SP |-> sR_StackPointer,
     PC |-> sR_ProgramCounter,
     N |-> bStatusN, Z |-> bStatusZ, V |-> bStatusV, C |-> bStatusC,
     mem |-> iMemory, Halt |-> FALSE, R0 |-> R0, tb |-> trapBoundary,
     cb |-> callBoundary, err |-> NoRunError]

Commit(mn, s) ==
    /\ sR_Accumulator' = s.A
    /\ sR_IndexRegister' = s.X
    /\ sR_StackPointer' = s.SP
    /\ sR_ProgramCounter' = s.PC
    /\ bStatusN' = s.N
    /\ bStatusZ' = s.Z
    /\ bStatusV' = s.V
    /\ bStatusC' = s.C
    /\ iMemory' = s.mem
    /\ Halt' = s.Halt
    /\ R0' = s.R0
    /\ trapBoundary' = s.tb
    /\ callBoundary' = s.cb
    /\ runError' = s.err
    /\ cycle' = IF eTraceMode # "eT_TR_OFF" THEN "trace" ELSE "fetch"
    /\ trace' = Append(trace, mn)
    /\ UNCHANGED <<iRomStartAddr, stray, sIR_InstrRegister, eTraceMode,
                   bSingleStep, bScrollingTrace, iLineCount,
                   numTerminalLines, TraceAddr, traceAnswer, dump>>
    /\ UNCHANGED nonCpuVars

OprndSpec == sIR_InstrRegister.sR_OprndSpec

\* The mode and the register the decoders give the fetched instruction.
ModeOneBit ==
    ProcessAddressingMode(GetAddressingModeOneBit(sIR_InstrRegister.iInstr_Spec))

ModeThreeBits ==
    ProcessAddressingMode(GetAddressingModeThreeBits(sIR_InstrRegister.iInstr_Spec))

RegLastBit ==
    ProcessRegisterType(GetRegisterTypeLastBit(sIR_InstrRegister.iInstr_Spec))

RegFourthBit ==
    ProcessRegisterType(GetRegisterTypeFourthBit(sIR_InstrRegister.iInstr_Spec))

\* LoadReg on the machine as it stands after the fetch.
LoadRegCur(mode) ==
    LoadReg(mode, iMemory, OprndSpec, sR_IndexRegister, sR_StackPointer)

AddrProcessorCur(mode) ==
    AddrProcessor(mode, iMemory, OprndSpec, sR_IndexRegister, sR_StackPointer)

\* A handler's result with register r (chosen by the register bit) set to v.
WithReg(s, rt, v) ==
    IF rt = "eR_R_IS_ACCUMULATOR" THEN [s EXCEPT !.A = v] ELSE [s EXCEPT !.X = v]

TheReg(rt) ==
    IF rt = "eR_R_IS_ACCUMULATOR" THEN sR_Accumulator ELSE sR_IndexRegister

\* bError ends the loop of StartExecution as bHalt does.
IllegalAddr(s) ==
    [s EXCEPT !.Halt = TRUE,
              !.err = [message |-> "Illegal addressing mode",
                       LastLoc |-> PrntRunLoc]]

ReadPastEnd(s) ==
    [s EXCEPT !.Halt = TRUE,
              !.err = [message |-> "File read error or read past end of file.",
                       LastLoc |-> PrntRunLoc]]

WithNZ(s, r) == [s EXCEPT !.N = SetNZBits(r).N, !.Z = SetNZBits(r).Z]

SimSTOP == Execute("eM_STOP") /\ Commit("eM_STOP", [Cur EXCEPT !.Halt = TRUE])

Pop(mem, SP, Size) == [Reg |-> MemRead(mem, SP), SP |-> FastAdder(SP, Size)]

SimRETTR ==
    /\ Execute("eM_RETTR")
    /\ LET Flags == CMod(MemByteRead(iMemory, sR_StackPointer), 16)
           sp1   == FastAdder(sR_StackPointer, sR_One)
           f1    == CDiv(Flags, 2)
           f2    == CDiv(f1, 2)
           f3    == CDiv(f2, 2)
           pA    == Pop(iMemory, sp1, sR_Two)
           pX    == Pop(iMemory, pA.SP, sR_Two)
           pPC   == Pop(iMemory, pX.SP, sR_Two)
           pSP   == Pop(iMemory, pPC.SP, sR_AtZero)
       IN  Commit("eM_RETTR",
                  [Cur EXCEPT !.C = CMod(Flags, 2) # 0, !.V = CMod(f1, 2) # 0,
                              !.Z = CMod(f2, 2) # 0, !.N = CMod(f3, 2) # 0,
                              !.A = pA.Reg, !.X = pX.Reg, !.PC = pPC.Reg,
                              !.SP = pSP.Reg])

SimMOVSPA ==
    Execute("eM_MOVSPA") /\ Commit("eM_MOVSPA", [Cur EXCEPT !.A = sR_StackPointer])

SimMOVFLGA ==
    /\ Execute("eM_MOVFLGA")
    /\ Commit("eM_MOVFLGA",
              [Cur EXCEPT !.A = Reg(0, BoolInt(bStatusN) * 8 + BoolInt(bStatusZ) * 4
                                       + BoolInt(bStatusV) * 2 + BoolInt(bStatusC))])

\* What a branch does when its condition holds: LoadReg (sR_ProgramCounter).
BranchTaken == [Cur EXCEPT !.PC = LoadRegCur(ModeOneBit), !.R0 = LoadRegCur(ModeOneBit)]

SimBR == Execute("eM_BR") /\ Commit("eM_BR", BranchTaken)

SimBRLE ==
    /\ Execute("eM_BRLE")
    /\ Commit("eM_BRLE", IF bStatusN \/ bStatusZ THEN BranchTaken ELSE Cur)

SimBRLT ==
    /\ Execute("eM_BRLT")
    /\ Commit("eM_BRLT", IF bStatusN THEN BranchTaken ELSE Cur)

SimBREQ ==
    /\ Execute("eM_BREQ")
    /\ Commit("eM_BREQ", IF bStatusZ THEN BranchTaken ELSE Cur)

SimBRNE ==
    /\ Execute("eM_BRNE")
    /\ Commit("eM_BRNE", IF ~bStatusZ THEN BranchTaken ELSE Cur)

SimBRGE ==
    /\ Execute("eM_BRGE")
    /\ Commit("eM_BRGE", IF ~bStatusN THEN BranchTaken ELSE Cur)

SimBRGTIgnoresZ ==
    /\ Execute("eM_BRGT")
    /\ Commit("eM_BRGT", IF ~bStatusN THEN BranchTaken ELSE Cur)

SimBRGT ==
    /\ Execute("eM_BRGT")
    /\ Commit("eM_BRGT", IF ~bStatusN /\ ~bStatusZ THEN BranchTaken ELSE Cur)

SimBRV ==
    /\ Execute("eM_BRV")
    /\ Commit("eM_BRV", IF bStatusV THEN BranchTaken ELSE Cur)

SimBRC ==
    /\ Execute("eM_BRC")
    /\ Commit("eM_BRC", IF bStatusC THEN BranchTaken ELSE Cur)

SimCALLPushesTarget ==
    /\ Execute("eM_CALL")
    /\ LET sp  == FastAdder(sR_StackPointer, sR_NegTwo)
           pc  == LoadReg(ModeOneBit, iMemory, OprndSpec, sR_IndexRegister, sp)
           mem == MemWrite(iMemory, pc, sp)
       IN  Commit("eM_CALL",
                  [Cur EXCEPT !.SP = sp, !.mem = mem, !.PC = pc, !.R0 = pc,
                              !.cb = [SP |-> sR_StackPointer,
                                      PC |-> sR_ProgramCounter]])

SimCALL ==
    /\ Execute("eM_CALL")
    /\ IF ModeOneBit = "eA_IMMEDIATE" \/ ModeOneBit = "eA_INDEXED"
       THEN LET sp  == FastAdder(sR_StackPointer, sR_NegTwo)
                mem == MemWrite(iMemory, sR_ProgramCounter, sp)
                pc  == LoadReg(ModeOneBit, mem, OprndSpec, sR_IndexRegister, sp)
            IN  Commit("eM_CALL",
                       [Cur EXCEPT !.SP = sp, !.mem = mem, !.PC = pc, !.R0 = pc,
                                   !.cb = [SP |-> sR_StackPointer,
                                           PC |-> sR_ProgramCounter]])
       ELSE Commit("eM_CALL", IllegalAddr(Cur))

SimNOTr ==
    /\ Execute("eM_NOTr")
    /\ LET r == TheReg(RegLastBit)
           v == Reg(255 - r.iHigh, 255 - r.iLow)
       IN  Commit("eM_NOTr", WithNZ(WithReg(Cur, RegLastBit, v), v))

\* ~h + 256 is 255 - h and ~l + 257 is 256 - l on two's-complement ints.
SimNEGr ==
    /\ Execute("eM_NEGr")
    /\ LET r == TheReg(RegLastBit)
           v == Reg((-r.iHigh - 1) + 256, (-r.iLow - 1) + 257)
       IN  Commit("eM_NEGr", WithNZ(WithReg(Cur, RegLastBit, v), v))

SimASLrKeepsV ==
    /\ Execute("eM_ASLr")
    /\ LET r == TheReg(RegLastBit)
           a == Adder(r, r)
       IN  Commit("eM_ASLr",
                  WithNZ([WithReg(Cur, RegLastBit, a.Result)
                             EXCEPT !.C = a.Carry], a.Result))

SimASLr ==
    /\ Execute("eM_ASLr")
    /\ LET r == TheReg(RegLastBit)
           a == Adder(r, r)
       IN  Commit("eM_ASLr",
                  WithNZ([WithReg(Cur, RegLastBit, a.Result)
                             EXCEPT !.C = a.Carry, !.V = a.Ovflw], a.Result))

SimASRr ==
    /\ Execute("eM_ASRr")
    /\ LET r     == TheReg(RegLastBit)
           Sign  == CDiv(r.iHigh, 128)
           Carry == CMod(r.iHigh, 2)
           v     == Reg(CDiv(r.iHigh, 2) + Sign * 128,
                        CDiv(r.iLow, 2) + Carry * 128)
       IN  Commit("eM_ASRr",
                  WithNZ([WithReg(Cur, RegLastBit, v)
                             EXCEPT !.C = CMod(r.iLow, 2) # 0], v))

SimROLr ==
    /\ Execute("eM_ROLr")
    /\ LET r == TheReg(RegLastBit)
           c == CMod(r.iHigh, 128) # 0
           v == Reg(r.iHigh * 2, r.iLow * 2 + BoolInt(c))
       IN  Commit("eM_ROLr", [WithReg(Cur, RegLastBit, v) EXCEPT !.C = c])

SimRORr ==
    /\ Execute("eM_RORr")
    /\ LET r == TheReg(RegLastBit)
           c == CMod(r.iLow, 2) # 0
           v == Reg(CDiv(r.iHigh, 2) + BoolInt(c) * 128, CDiv(r.iLow, 2))
       IN  Commit("eM_RORr", [WithReg(Cur, RegLastBit, v) EXCEPT !.C = c])

(***************************************************************************)
(* CHARI reads one character.  The input is a byte of the input stream or  *)
(* its end (only a file input can end); Ch is a char, which the build      *)
(* makes signed or unsigned, so a byte above 127 is stored as itself or as *)
(* the negative int it converts to.                                        *)
(***************************************************************************)
EndOfFile == -1000

InputBytes == {10, 65, 200}

CharToInt(b) == IF b > 127 THEN {b, b - 256} ELSE {b}

SimCHARI ==
    /\ Execute("eM_CHARI")
    /\ \E in \in InputBytes \cup {EndOfFile} :
         IF in = EndOfFile
         THEN Commit("eM_CHARI", ReadPastEnd(Cur))
         ELSE IF ModeThreeBits = "eA_IMMEDIATE"
         THEN Commit("eM_CHARI", IllegalAddr(Cur))
         ELSE \E Ch \in CharToInt(in) :
                Commit("eM_CHARI",
                       [Cur EXCEPT !.mem = MemByteWrite(iMemory, Ch,
                                               AddrProcessorCur(ModeThreeBits))])

\* CHARO writes one character to the output stream, which the model does
\* not keep; the machine is left as the fetch left it.
SimCHARO == Execute("eM_CHARO") /\ Commit("eM_CHARO", Cur)

SimRETn ==
    /\ Execute("eM_RETn")
    /\ LET sR_N == Reg(0, GetNValueThreeBits(sIR_InstrRegister.iInstr_Spec))
           sp   == FastAdder(sR_StackPointer, sR_N)
       IN  Commit("eM_RETn",
                  [Cur EXCEPT !.PC = MemRead(iMemory, sp),
                              !.SP = FastAdder(sp, sR_Two)])

SimADDSP ==
    /\ Execute("eM_ADDSP")
    /\ LET r == LoadRegCur(ModeThreeBits)
           a == Adder(sR_StackPointer, r)
       IN  Commit("eM_ADDSP",
                  WithNZ([Cur EXCEPT !.SP = a.Result, !.C = a.Carry,
                                     !.V = a.Ovflw, !.R0 = r], a.Result))

SimSUBSP ==
    /\ Execute("eM_SUBSP")
    /\ LET r == LoadRegCur(ModeThreeBits)
           a == Subtractor(sR_StackPointer, r)
       IN  Commit("eM_SUBSP",
                  WithNZ([Cur EXCEPT !.SP = a.Result, !.C = a.Carry,
                                     !.V = a.Ovflw, !.R0 = r], a.Result))

SimADDr ==
    /\ Execute("eM_ADDr")
    /\ LET r == LoadRegCur(ModeThreeBits)
           a == Adder(TheReg(RegFourthBit), r)
       IN  Commit("eM_ADDr",
                  WithNZ([WithReg(Cur, RegFourthBit, a.Result)
                             EXCEPT !.C = a.Carry, !.V = a.Ovflw, !.R0 = r],
                         a.Result))

SimSUBr ==
    /\ Execute("eM_SUBr")
    /\ LET r == LoadRegCur(ModeThreeBits)
           a == Subtractor(TheReg(RegFourthBit), r)
       IN  Commit("eM_SUBr",
                  WithNZ([WithReg(Cur, RegFourthBit, a.Result)
                             EXCEPT !.C = a.Carry, !.V = a.Ovflw, !.R0 = r],
                         a.Result))

RECURSIVE ANDRegLoop(_, _, _, _)
ANDRegLoop(Op1, Op2, Result, iPwr) ==
    IF (Op1.iHigh # 0 /\ Op2.iHigh # 0) \/ (Op1.iLow # 0 /\ Op2.iLow # 0)
    THEN ANDRegLoop(
            Reg(CDiv(Op1.iHigh, 2), CDiv(Op1.iLow, 2)),
            Reg(CDiv(Op2.iHigh, 2), CDiv(Op2.iLow, 2)),
            Reg(IF CMod(Op1.iHigh, 2) # 0 /\ CMod(Op2.iHigh, 2) # 0
                THEN Result.iHigh + iPwr ELSE Result.iHigh,
                IF CMod(Op1.iLow, 2) # 0 /\ CMod(Op2.iLow, 2) # 0
                THEN Result.iLow + iPwr ELSE Result.iLow),
            iPwr + iPwr)
    ELSE Result

ANDReg(Op1, Op2) == ANDRegLoop(Op1, Op2, Reg(0, 0), 1)

RECURSIVE ORRegLoop(_, _, _, _)
ORRegLoop(Op1, Op2, Result, Pwr) ==
    IF (Op1.iHigh # 0 \/ Op2.iHigh # 0) \/ (Op1.iLow # 0 \/ Op2.iLow # 0)
    THEN ORRegLoop(
            Reg(CDiv(Op1.iHigh, 2), CDiv(Op1.iLow, 2)),
            Reg(CDiv(Op2.iHigh, 2), CDiv(Op2.iLow, 2)),
            Reg(IF CMod(Op1.iHigh, 2) # 0 \/ CMod(Op2.iHigh, 2) # 0
                THEN Result.iHigh + Pwr ELSE Result.iHigh,
                IF CMod(Op1.iLow, 2) # 0 \/ CMod(Op2.iLow, 2) # 0
                THEN Result.iLow + Pwr ELSE Result.iLow),
            Pwr + Pwr)
    ELSE Result

ORReg(Op1, Op2) == ORRegLoop(Op1, Op2, Reg(0, 0), 1)

SimANDr ==
    /\ Execute("eM_ANDr")
    /\ LET r == LoadRegCur(ModeThreeBits)
           v == ANDReg(TheReg(RegFourthBit), r)
       IN  Commit("eM_ANDr",
                  WithNZ([WithReg(Cur, RegFourthBit, v) EXCEPT !.R0 = r], v))

SimORr ==
    /\ Execute("eM_ORr")
    /\ LET r == LoadRegCur(ModeThreeBits)
           v == ORReg(TheReg(RegFourthBit), r)
       IN  Commit("eM_ORr",
                  WithNZ([WithReg(Cur, RegFourthBit, v) EXCEPT !.R0 = r], v))

\* The flags CPr leaves for register R0c and operand R1: [N, Z, V, C].
CPrFlagsFromResult(R0c, R1) ==
    LET d == Subtractor(R0c, R1)
    IN  [N |-> SetNZBits(d.Result).N, Z |-> SetNZBits(d.Result).Z,
         V |-> d.Ovflw, C |-> d.Carry]

CPrFlags(R0c, R1) ==
    LET d == Subtractor(R0c, R1)
    IN  IF R0c.iHigh <= 127 /\ R1.iHigh >= 128
        THEN [N |-> FALSE, Z |-> FALSE, V |-> d.Ovflw, C |-> d.Carry]
        ELSE IF R0c.iHigh >= 128 /\ R1.iHigh <= 127
        THEN [N |-> TRUE, Z |-> FALSE, V |-> d.Ovflw, C |-> d.Carry]
        ELSE [N |-> SetNZBits(d.Result).N, Z |-> SetNZBits(d.Result).Z,
              V |-> d.Ovflw, C |-> d.Carry]

SimCPrOperandFirst ==
    /\ Execute("eM_CPr")
    /\ LET R1 == LoadRegCur(ModeThreeBits)
           f  == CPrFlags(R1, TheReg(RegFourthBit))
       IN  Commit("eM_CPr",
                  [Cur EXCEPT !.N = f.N, !.Z = f.Z, !.V = f.V, !.C = f.C,
                              !.R0 = R1])

SimCPr ==
    /\ Execute("eM_CPr")
    /\ LET R1 == LoadRegCur(ModeThreeBits)
           f  == CPrFlags(TheReg(RegFourthBit), R1)
       IN  Commit("eM_CPr",
                  [Cur EXCEPT !.N = f.N, !.Z = f.Z, !.V = f.V, !.C = f.C,
                              !.R0 = R1])

SimLDr ==
    /\ Execute("eM_LDr")
    /\ LET v == LoadRegCur(ModeThreeBits)
       IN  Commit("eM_LDr",
                  WithNZ([WithReg(Cur, RegFourthBit, v) EXCEPT !.R0 = v], v))

SimLDBYTEr ==
    /\ Execute("eM_LDBYTEr")
    /\ LET Operand == AddrProcessorCur(ModeThreeBits)
           Temp == IF ModeThreeBits = "eA_IMMEDIATE" THEN Operand.iLow
                   ELSE MemByteRead(iMemory, Operand)
           v    == Reg(TheReg(RegFourthBit).iHigh, Temp)
       IN  Commit("eM_LDBYTEr", WithNZ(WithReg(Cur, RegFourthBit, v), v))

SimSTr ==
    /\ Execute("eM_STr")
    /\ IF ModeThreeBits = "eA_IMMEDIATE"
       THEN Commit("eM_STr", IllegalAddr(Cur))
       ELSE Commit("eM_STr",
                   [Cur EXCEPT !.mem = MemWrite(iMemory, TheReg(RegFourthBit),
                                           AddrProcessorCur(ModeThreeBits))])

SimSTBYTEr ==
    /\ Execute("eM_STBYTEr")
    /\ IF ModeThreeBits = "eA_IMMEDIATE"
       THEN Commit("eM_STBYTEr", IllegalAddr(Cur))
       ELSE Commit("eM_STBYTEr",
                   [Cur EXCEPT !.mem = MemByteWrite(iMemory,
                                           TheReg(RegFourthBit).iLow,
                                           AddrProcessorCur(ModeThreeBits))])

Push(mem, SP, r, Size) ==
    [SP |-> FastAdder(SP, Size), mem |-> MemWrite(mem, r, FastAdder(SP, Size))]

TrapMnemonics ==
    {"eM_UNIMP0", "eM_UNIMP1", "eM_UNIMP2", "eM_UNIMP3",
     "eM_UNIMP4", "eM_UNIMP5", "eM_UNIMP6", "eM_UNIMP7"}

\* The machine after the trap hand-off, from the machine s after the fetch.
TrapFrameNoPC(s, iInstr_Spec) ==
    LET sp0 == Reg(Cell(s.mem, SYSTEM_SP), Cell(s.mem, SYSTEM_SP + 1))
        sp1 == FastAdder(sp0, sR_NegOne)
        m1  == MemByteWrite(s.mem, iInstr_Spec, sp1)
        p2  == Push(m1, sp1, s.SP, sR_NegTwo)
        p4  == Push(p2.mem, p2.SP, s.X, sR_NegTwo)
        p5  == Push(p4.mem, p4.SP, s.A, sR_NegTwo)
        sp6 == FastAdder(p5.SP, sR_NegOne)
        fl  == BoolInt(s.N) * 8 + BoolInt(s.Z) * 4 + BoolInt(s.V) * 2
               + BoolInt(s.C)
        m6  == MemByteWrite(p5.mem, fl, sp6)
    IN  [s EXCEPT !.SP = sp6, !.mem = m6,
                  !.PC = Reg(Cell(m6, INTR_PC), Cell(m6, INTR_PC + 1))]

TrapFrameSpecifierLast(s, iInstr_Spec) ==
    LET sp0 == Reg(Cell(s.mem, SYSTEM_SP), Cell(s.mem, SYSTEM_SP + 1))
        p2  == Push(s.mem, sp0, s.SP, sR_NegTwo)
        p3  == Push(p2.mem, p2.SP, s.PC, sR_NegTwo)
        p4  == Push(p3.mem, p3.SP, s.X, sR_NegTwo)
        p5  == Push(p4.mem, p4.SP, s.A, sR_NegTwo)
        sp6 == FastAdder(p5.SP, sR_NegOne)
        fl  == BoolInt(s.N) * 8 + BoolInt(s.Z) * 4 + BoolInt(s.V) * 2
               + BoolInt(s.C)
        m6  == MemByteWrite(p5.mem, fl, sp6)
        sp7 == FastAdder(sp6, sR_NegOne)
        m7  == MemByteWrite(m6, iInstr_Spec, sp7)
    IN  [s EXCEPT !.SP = sp7, !.mem = m7,
                  !.PC = Reg(Cell(m7, INTR_PC), Cell(m7, INTR_PC + 1))]

TrapFrame(s, iInstr_Spec) ==
    LET sp0 == Reg(Cell(s.mem, SYSTEM_SP), Cell(s.mem, SYSTEM_SP + 1))
        sp1 == FastAdder(sp0, sR_NegOne)
        m1  == MemByteWrite(s.mem, iInstr_Spec, sp1)
        p2  == Push(m1, sp1, s.SP, sR_NegTwo)
        p3  == Push(p2.mem, p2.SP, s.PC, sR_NegTwo)
        p4  == Push(p3.mem, p3.SP, s.X, sR_NegTwo)
        p5  == Push(p4.mem, p4.SP, s.A, sR_NegTwo)
        sp6 == FastAdder(p5.SP, sR_NegOne)
        fl  == BoolInt(s.N) * 8 + BoolInt(s.Z) * 4 + BoolInt(s.V) * 2
               + BoolInt(s.C)
        m6  == MemByteWrite(p5.mem, fl, sp6)
    IN  [s EXCEPT !.SP = sp6, !.mem = m6,
                  !.PC = Reg(Cell(m6, INTR_PC), Cell(m6, INTR_PC + 1))]

SimTRAP ==
    /\ cycle = "execute"
    /\ instr_SpecToMnemon(sIR_InstrRegister.iInstr_Spec) \in TrapMnemonics
    /\ Commit(instr_SpecToMnemon(sIR_InstrRegister.iInstr_Spec),
              [TrapFrame(Cur, sIR_InstrRegister.iInstr_Spec)
                  EXCEPT !.tb = [A |-> Cur.A, X |-> Cur.X, PC |-> Cur.PC,
                                 SP |-> Cur.SP, N |-> Cur.N, Z |-> Cur.Z,
                                 V |-> Cur.V, C |-> Cur.C]])

\* The execute command: the run starts at address 0 on the user stack.
ExecuteCommand ==
    /\ Halt
    /\ Len(trace) < MaxSteps
    /\ sR_StackPointer' = Reg(Cell(iMemory, USER_SP), Cell(iMemory, USER_SP + 1))
    /\ sR_ProgramCounter' = Reg(0, 0)
    /\ Halt' = FALSE
    /\ cycle' = "fetch"
    /\ UNCHANGED <<iMemory, iRomStartAddr, stray, sR_Accumulator,
                   sR_IndexRegister, sIR_InstrRegister, bStatusN, bStatusZ,
                   bStatusV, bStatusC, R0, trace, trapBoundary,
                   callBoundary, runError, eTraceMode, bSingleStep,
                   bScrollingTrace, iLineCount, numTerminalLines, TraceAddr,
                   traceAnswer, dump>>
    /\ UNCHANGED nonCpuVars

(***************************************************************************)
(* The trace command.  TraceCommand starts a traced run; after every       *)
(* instruction StartExecution calls Trace, which prints the line of the    *)
(* instruction and, in single-step mode or at the end of a page, asks.     *)
(* When the loop of StartExecution ends, TraceCommand switches the trace   *)
(* mode off and returns to the menu.                                       *)
(***************************************************************************)
\* What GetTracePrompt returns.
TracePrompts == {"N", "C", "S", "Q", " "}

\* The answers to "Number of lines per screen dump" of one trace command.
LineAnswers == {<<>>, <<5>>, <<12>>}

atoiLines(n) == IF n < 8 THEN 8 ELSE n

\* case 'Q' of both prompts; t holds bSingleStep, bScrollingTrace,
\* LineCount and Halt.
QuitTraceGoOn(t) ==
    [t EXCEPT !.bSingleStep = FALSE, !.bScrollingTrace = FALSE]

QuitTrace(t) ==
    [t EXCEPT !.bSingleStep = FALSE, !.bScrollingTrace = FALSE,
              !.Halt = TRUE]

\* Whether Trace prints the line of the instruction fetched at Address.
TraceLinePrinted(Address) ==
    LET iTempAddr == IF Address.iHigh < MEMORY_SIZE \div 256
                     THEN Address.iHigh * 256 + Address.iLow
                     ELSE TOP_OF_MEMORY
    IN  \/ iTempAddr < iRomStartAddr
        \/ iTempAddr >= iRomStartAddr /\ eTraceMode = "eT_TR_TRAPS"
        \/ eTraceMode = "eT_TR_LOADER"

\* Whether Trace asks after the line it prints.
TraceAsks(t) ==
    /\ ~t.bScrollingTrace
    /\ t.bSingleStep \/ t.LineCount + 1 >= numTerminalLines

\* Trace after the line is printed, ch the answer if it asks.
TraceLine(t, ch) ==
    IF t.bScrollingTrace THEN t
    ELSE IF t.bSingleStep
    THEN CASE ch = "N" -> [t EXCEPT !.bSingleStep = FALSE, !.LineCount = 4]
           [] ch = "C" -> [t EXCEPT !.bSingleStep = FALSE,
                                    !.bScrollingTrace = TRUE]
           [] ch = "Q" -> QuitTrace(t)
           [] OTHER -> t
    ELSE LET page == [t EXCEPT !.LineCount = t.LineCount + 1]
         IN  IF page.LineCount >= numTerminalLines
             THEN CASE ch = "N" -> [page EXCEPT !.LineCount = 4]
                    [] ch = "C" -> [page EXCEPT !.bScrollingTrace = TRUE]
                    [] ch = "S" -> [page EXCEPT !.bSingleStep = TRUE]
                    [] ch = "Q" -> QuitTrace(page)
                    [] OTHER -> page
             ELSE page

\* The call of Trace in the loop of StartExecution, the test of the loop
\* and, when the loop ends, the return through TraceCommand to the menu.
Trace ==
    /\ cycle = "trace"
    /\ LET t == [bSingleStep |-> bSingleStep,
                 bScrollingTrace |-> bScrollingTrace,
                 LineCount |-> iLineCount, Halt |-> Halt]
           asks == TraceLinePrinted(TraceAddr) /\ TraceAsks(t)
       IN  \E ch \in (IF asks THEN TracePrompts ELSE {""}) :
              LET after == IF TraceLinePrinted(TraceAddr)
                           THEN TraceLine(t, ch)
                           ELSE t
              IN  /\ bSingleStep' = after.bSingleStep
                  /\ bScrollingTrace' = after.bScrollingTrace
                  /\ iLineCount' = after.LineCount
                  /\ Halt' = after.Halt
                  /\ traceAnswer' = IF asks THEN ch ELSE traceAnswer
                  /\ eTraceMode' = IF after.Halt THEN "eT_TR_OFF"
                                   ELSE eTraceMode
    /\ cycle' = "fetch"
    /\ UNCHANGED <<iMemory, iRomStartAddr, stray, sR_Accumulator,
                   sR_IndexRegister, sR_StackPointer, sR_ProgramCounter,
                   sIR_InstrRegister, bStatusN, bStatusZ, bStatusV, bStatusC,
                   R0, trace, trapBoundary, callBoundary, runError,
                   numTerminalLines, TraceAddr, dump>>
    /\ UNCHANGED nonCpuVars

\* The trace command at the menu: the lines of a page adjusted or not,
\* then the program traced, with or without the traps, the loader traced,
\* or nothing.
TraceCommand ==
    /\ Halt
    /\ cycle = "fetch"
    /\ Len(trace) < MaxTraced
    /\ \E lines \in LineAnswers, ch \in {"P", "T", "L", " "} :
          /\ numTerminalLines' = IF lines = <<>> THEN numTerminalLines
                                 ELSE atoiLines(lines[Len(lines)])
          /\ bSingleStep' = FALSE
          /\ bScrollingTrace' = FALSE
          /\ IF ch = " "
             THEN UNCHANGED <<sR_StackPointer, sR_ProgramCounter, Halt,
                              eTraceMode, iLineCount, traceAnswer>>
             ELSE /\ sR_StackPointer' =
                        IF ch = "L"
                        THEN Reg(Cell(iMemory, SYSTEM_SP),
                                 Cell(iMemory, SYSTEM_SP + 1))
                        ELSE Reg(Cell(iMemory, USER_SP),
                                 Cell(iMemory, USER_SP + 1))
                  /\ sR_ProgramCounter' =
                        IF ch = "L"
                        THEN Reg(Cell(iMemory, LOADER_PC),
                                 Cell(iMemory, LOADER_PC + 1))
                        ELSE Reg(0, 0)
                  /\ eTraceMode' = CASE ch = "P" -> "eT_TR_PROGRAM"
                                     [] ch = "T" -> "eT_TR_TRAPS"
                                     [] ch = "L" -> "eT_TR_LOADER"
                  /\ iLineCount' = 6
                  /\ Halt' = FALSE
                  /\ traceAnswer' = ""
    /\ UNCHANGED <<iMemory, iRomStartAddr, stray, sR_Accumulator,
                   sR_IndexRegister, sIR_InstrRegister, bStatusN, bStatusZ,
                   bStatusV, bStatusC, cycle, R0, trace, trapBoundary,
                   callBoundary, runError, TraceAddr, dump>>
    /\ UNCHANGED nonCpuVars

(***************************************************************************)
(* The assembler (src/asem8.cpp).                                          *)
(*                                                                         *)
(* The mnemonic table: for each mnemonic its class (the AMnemon subclass   *)
(* family), its iOpCode and, for a trap mnemonic, its index k in the trap  *)
(* registry.  The last three columns say what the mnemonic denotes: the    *)
(* instruction, the register and the n of RETn.  The trap mnemonics carry  *)
(* the names of the standard trap file.                                    *)
(***************************************************************************)
Mn(id, op, code, mnemon, reg, n, k) ==
    [id |-> id, op |-> op, iOpCode |-> code, mnemon |-> mnemon, reg |-> reg,
     n |-> n, k |-> k]

cMnemonTable ==
    <<Mn("STOP", "UnaryOp", 0, "eM_STOP", "none", -1, -1),
      Mn("RETTR", "UnaryOp", 1, "eM_RETTR", "none", -1, -1),
      Mn("MOVSPA", "UnaryOp", 2, "eM_MOVSPA", "none", -1, -1),
      Mn("MOVFLGA", "UnaryOp", 3, "eM_MOVFLGA", "none", -1, -1),
      Mn("BR", "BranchOp", 4, "eM_BR", "none", -1, -1),
      Mn("BRLE", "BranchOp", 6, "eM_BRLE", "none", -1, -1),
      Mn("BRLT", "BranchOp", 8, "eM_BRLT", "none", -1, -1),
      Mn("BREQ", "BranchOp", 10, "eM_BREQ", "none", -1, -1),
      Mn("BRNE", "BranchOp", 12, "eM_BRNE", "none", -1, -1),
      Mn("BRGE", "BranchOp", 14, "eM_BRGE", "none", -1, -1),
      Mn("BRGT", "BranchOp", 16, "eM_BRGT", "none", -1, -1),
      Mn("BRV", "BranchOp", 18, "eM_BRV", "none", -1, -1),
      Mn("BRC", "BranchOp", 20, "eM_BRC", "none", -1, -1),
      Mn("CALL", "BranchOp", 22, "eM_CALL", "none", -1, -1),
      Mn("NOTA", "UnaryOp", 24, "eM_NOTr", "A", -1, -1),
      Mn("NOTX", "UnaryOp", 25, "eM_NOTr", "X", -1, -1),
      Mn("NEGA", "UnaryOp", 26, "eM_NEGr", "A", -1, -1),
      Mn("NEGX", "UnaryOp", 27, "eM_NEGr", "X", -1, -1),
      Mn("ASLA", "UnaryOp", 28, "eM_ASLr", "A", -1, -1),
      Mn("ASLX", "UnaryOp", 29, "eM_ASLr", "X", -1, -1),
      Mn("ASRA", "UnaryOp", 30, "eM_ASRr", "A", -1, -1),
      Mn("ASRX", "UnaryOp", 31, "eM_ASRr", "X", -1, -1),
      Mn("ROLA", "UnaryOp", 32, "eM_ROLr", "A", -1, -1),
      Mn("ROLX", "UnaryOp", 33, "eM_ROLr", "X", -1, -1),
      Mn("RORA", "UnaryOp", 34, "eM_RORr", "A", -1, -1),
      Mn("RORX", "UnaryOp", 35, "eM_RORr", "X", -1, -1),
      Mn("NOP0", "Unimp", 36, "eM_UNIMP0", "none", -1, 0),
      Mn("NOP1", "Unimp", 37, "eM_UNIMP1", "none", -1, 1),
      Mn("NOP2", "Unimp", 38, "eM_UNIMP2", "none", -1, 2),
      Mn("NOP3", "Unimp", 39, "eM_UNIMP3", "none", -1, 3),
      Mn("NOP", "Unimp", 40, "eM_UNIMP4", "none", -1, 4),
      Mn("DECI", "Unimp", 48, "eM_UNIMP5", "none", -1, 5),
      Mn("DECO", "Unimp", 56, "eM_UNIMP6", "none", -1, 6),
      Mn("STRO", "Unimp", 64, "eM_UNIMP7", "none", -1, 7),
      Mn("CHARI", "InputOp", 72, "eM_CHARI", "none", -1, -1),
      Mn("CHARO", "GeneralOp", 80, "eM_CHARO", "none", -1, -1),
      Mn("RET0", "UnaryOp", 88, "eM_RETn", "none", 0, -1),
      Mn("RET1", "UnaryOp", 89, "eM_RETn", "none", 1, -1),
      Mn("RET2", "UnaryOp", 90, "eM_RETn", "none", 2, -1),
      Mn("RET3", "UnaryOp", 91, "eM_RETn", "none", 3, -1),
      Mn("RET4", "UnaryOp", 92, "eM_RETn", "none", 4, -1),
      Mn("RET5", "UnaryOp", 93, "eM_RETn", "none", 5, -1),
      Mn("RET6", "UnaryOp", 94, "eM_RETn", "none", 6, -1),
      Mn("RET7", "UnaryOp", 95, "eM_RETn", "none", 7, -1),
      Mn("ADDSP", "GeneralOp", 96, "eM_ADDSP", "none", -1, -1),
      Mn("SUBSP", "GeneralOp", 104, "eM_SUBSP", "none", -1, -1),
      Mn("ADDA", "GeneralOp", 112, "eM_ADDr", "A", -1, -1),
      Mn("ADDX", "GeneralOp", 120, "eM_ADDr", "X", -1, -1),
      Mn("SUBA", "GeneralOp", 128, "eM_SUBr", "A", -1, -1),
      Mn("SUBX", "GeneralOp", 136, "eM_SUBr", "X", -1, -1),
      Mn("ANDA", "GeneralOp", 144, "eM_ANDr", "A", -1, -1),
      Mn("ANDX", "GeneralOp", 152, "eM_ANDr", "X", -1, -1),
      Mn("ORA", "GeneralOp", 160, "eM_ORr", "A", -1, -1),
      Mn("ORX", "GeneralOp", 168, "eM_ORr", "X", -1, -1),
      Mn("CPA", "GeneralOp", 176, "eM_CPr", "A", -1, -1),
      Mn("CPX", "GeneralOp", 184, "eM_CPr", "X", -1, -1),
      Mn("LDA", "GeneralOp", 192, "eM_LDr", "A", -1, -1),
      Mn("LDX", "GeneralOp", 200, "eM_LDr", "X", -1, -1),
      Mn("LDBYTEA", "GeneralOp", 208, "eM_LDBYTEr", "A", -1, -1),
      Mn("LDBYTEX", "GeneralOp", 216, "eM_LDBYTEr", "X", -1, -1),
      Mn("STA", "InputOp", 224, "eM_STr", "A", -1, -1),
      Mn("STX", "InputOp", 232, "eM_STr", "X", -1, -1),
      Mn("STBYTEA", "InputOp", 240, "eM_STBYTEr", "A", -1, -1),
      Mn("STBYTEX", "InputOp", 248, "eM_STBYTEr", "X", -1, -1)>>

BYTE == 1

WORD == 2

OBJ_FILE_LINE_LENGTH == 16

UNARY == 1

NONUNARY == 3

UNARY_TRAPS == 4

MAX_LINES == 4096

CODE_MAX_SIZE == 32768

MIN_DEC == -32768

MAX_DEC == 65535

MAX_BYTE == 255

MIN_BYTE == -256

MAX_ADDR == 65535

BYTE_LENGTH == 2

WORD_LENGTH == 4

HEX == 16

HEX2 == 256

HEX3 == 4096

\* The bit of each addressing mode in a registry entry's iAddrMode.
ModeBit(ch) ==
    CASE ch = "i" -> 1
      [] ch = "d" -> 2
      [] ch = "n" -> 4
      [] ch = "s" -> 8
      [] ch = "sf" -> 16
      [] ch = "x" -> 32
      [] ch = "sx" -> 64
      [] ch = "sxf" -> 128

AddrModes == {"i", "d", "n", "s", "sf", "x", "sx", "sxf"}

bSearchAddrModes(cAddrMode, iAddrMode) ==
    IF iAddrMode = 255 THEN TRUE
    ELSE IF iAddrMode = 0 THEN FALSE
    ELSE IF cAddrMode \in AddrModes
    THEN (iAddrMode \div ModeBit(cAddrMode)) % 2 # 0
    ELSE FALSE

iAddrModeValue(addrMode, noAddrModeRequired) ==
    CASE addrMode = "i" \/ addrMode = "" -> 0
      [] addrMode = "d" -> 1
      [] addrMode = "n" -> 2
      [] addrMode = "x" -> IF noAddrModeRequired THEN 1 ELSE 5
      [] addrMode = "s" -> 3
      [] addrMode = "sf" -> 4
      [] addrMode = "sx" -> 6
      [] addrMode = "sxf" -> 7
      [] OTHER -> -1

bIsUnary(m) ==
    CASE m.op = "UnaryOp" -> TRUE
      [] m.op = "Unimp" ->
            IF m.k < UNARY_TRAPS THEN TRUE
            ELSE sUnimpMnemon[m.k + 1] = 0
      [] OTHER -> FALSE

\* bValidAddrMode with the test of InputOp left out.
bValidAddrModeInputAny(m, ch) ==
    CASE m.op = "UnaryOp" -> FALSE
      [] m.op = "BranchOp" -> ch = "i" \/ ch = "x"
      [] m.op \in {"GeneralOp", "InputOp"} -> TRUE
      [] m.op = "Unimp" -> bSearchAddrModes(ch, sUnimpMnemon[m.k + 1])

bValidAddrMode(m, ch) ==
    CASE m.op = "UnaryOp" -> FALSE
      [] m.op = "BranchOp" -> ch = "i" \/ ch = "x"
      [] m.op = "GeneralOp" -> TRUE
      [] m.op = "InputOp" -> ch # "i"
      [] m.op = "Unimp" -> bSearchAddrModes(ch, sUnimpMnemon[m.k + 1])

bNoAddrModeRequired(m) == m.op = "BranchOp"

\* vLookUpMnemon: the table entries whose name is cID (none when not found).
vLookUpMnemon(cID) ==
    {k \in 1..Len(cMnemonTable) : cMnemonTable[k].id = cID}

(***************************************************************************)
(* Hexadecimal text of the object file, and its reading.                   *)
(***************************************************************************)
HexDigits == <<"0", "1", "2", "3", "4", "5", "6", "7", "8", "9", "A", "B",
               "C", "D", "E", "F">>

cDecToHex(d) == IF d \in 0..15 THEN HexDigits[d + 1] ELSE " "

vDecToHexByte(iDec) ==
    LET d == IF iDec < 0 THEN iDec + MAX_BYTE + 1 ELSE iDec
    IN  <<cDecToHex(CDiv(d, HEX)), cDecToHex(CMod(d, HEX))>>

vDecToHexWord(iDec) ==
    LET d1 == IF iDec < 0 THEN iDec + MAX_DEC + 1 ELSE iDec
        d  == IF d1 > MAX_DEC THEN d1 - (MAX_DEC + 1) ELSE d1
        iFirstInt  == CDiv(d, HEX3)
        iSecondInt == CDiv(d - HEX3 * iFirstInt, HEX2)
        iThirdInt  == CDiv(d - HEX3 * iFirstInt - iSecondInt * HEX2, HEX)
        iFourthInt == d - HEX3 * iFirstInt - iSecondInt * HEX2
                      - iThirdInt * HEX
    IN  <<cDecToHex(iFirstInt), cDecToHex(iSecondInt), cDecToHex(iThirdInt),
          cDecToHex(iFourthInt)>>

iHexToDec(ch) ==
    IF \E d \in 0..15 : HexDigits[d + 1] = ch
    THEN CHOOSE d \in 0..15 : HexDigits[d + 1] = ch
    ELSE -1

iHexByteToDecInt(cHex) == 16 * iHexToDec(cHex[1]) + iHexToDec(cHex[2])

(***************************************************************************)
(* Code objects (the ACode classes).  A source line is the sequence of the *)
(* tokens vGetToken delivers for it; after the last one vGetToken delivers *)
(* the empty token.  The value of a decimal token is the integer it        *)
(* denotes.                                                                *)
(***************************************************************************)
ErrorClasses ==
    {"eNoEnd", "eTooLong", "eSymPrevDef", "eProgTooLong", "eInstrDotExp",
     "eInvSyntax", "eSymInstrDotExp", "eInvMnemon", "eCommExp",
     "eCommentTooLong", "eOprndSpecExp", "eNoDecConst", "eNoHexConst",
     "eNoCharConst", "eAddrExp", "eAddrCommExp", "eNoAddr", "eNoAddrmode",
     "eDecOverflow", "eNoDotCom", "eNoString", "eSymNotDefined",
     "eOperandUnexp", "eStrOprndTooLong", "eDecHexExp", "eConstExp",
     "eSymExpWithAddrss", "eSymBeforeEquate", "eConstOverflow",
     "eByteOutOfRange", "eAddrOverflow", "eOneBurn", "eByteStrTooLong",
     "eWordStrTooLong", "eEquateStrTooLong"}

ACode(kind, iAddr, mn, sArg, tArg) ==
    [kind |-> kind, iAddress |-> iAddr, mn |-> mn, cSecondArg |-> sArg,
     cThirdArg |-> tArg, dotcom |-> ""]

Error(kind) == ACode(kind, 0, 0, "", "")

ZeroArg == ACode("ZeroArg", 0, 0, "", "")

DotEnd(iAddr) == ACode("DotEnd", iAddr, 0, "", "")

UnaryInstruction(iAddr, mn) == ACode("UnaryInstruction", iAddr, mn, "", "")

InstructionDec(iAddr, mn, sArg, tArg) ==
    ACode("InstructionDec", iAddr, mn, sArg, tArg)

InstructionSym(iAddr, mn, sArg, tArg) ==
    ACode("InstructionSym", iAddr, mn, sArg, tArg)

\* The dot commands with an operand.  The second argument is the integer
\* of a decimal operand, the four digits of a hexadecimal one, the
\* identifier of a symbolic one, and the bytes of a character or string.
DotComDec(iAddr, dot, sArg) ==
    [ACode("DotComDec", iAddr, 0, sArg, "") EXCEPT !.dotcom = dot]

DotComHex(iAddr, dot, sArg) ==
    [ACode("DotComHex", iAddr, 0, sArg, "") EXCEPT !.dotcom = dot]

DotComChar(iAddr, dot, byteArg) ==
    [ACode("DotComChar", iAddr, 0, byteArg, "") EXCEPT !.dotcom = dot]

DotComString(iAddr, dot, wordArg) ==
    [ACode("DotComString", iAddr, 0, wordArg, "") EXCEPT !.dotcom = dot]

DotComSym(iAddr, dot, sArg) ==
    [ACode("DotComSym", iAddr, 0, sArg, "") EXCEPT !.dotcom = dot]

DotComAscii(iAddr, dot, byteArg) ==
    [ACode("DotComAscii", iAddr, 0, byteArg, "") EXCEPT !.dotcom = dot]

bIsError(code) == code.kind \in ErrorClasses

iHexWordToDecInt(cHex) ==
    HEX3 * iHexToDec(cHex[1]) + HEX2 * iHexToDec(cHex[2])
    + HEX * iHexToDec(cHex[3]) + iHexToDec(cHex[4])

\* iAddressCounter of .BLOCK n with n taken for the size of every block.
BlockSizeOne(n) == 1

BlockSize(n) == n

iAddressCounter(code) ==
    CASE code.kind = "UnaryInstruction" -> UNARY
      [] code.kind \in {"InstructionDec", "InstructionSym"} -> NONUNARY
      [] code.kind = "DotComDec" ->
            CASE code.dotcom = "BLOCK" -> BlockSize(code.cSecondArg)
              [] code.dotcom = "BYTE" -> BYTE
              [] code.dotcom = "WORD" -> WORD
              [] OTHER -> 0
      [] code.kind = "DotComHex" ->
            CASE code.dotcom = "BLOCK" ->
                    BlockSize(iHexWordToDecInt(<<"0", "0", code.cSecondArg[3],
                                                 code.cSecondArg[4]>>))
              [] code.dotcom = "BYTE" -> BYTE
              [] code.dotcom = "WORD" -> WORD
              [] OTHER -> 0
      [] code.kind \in {"DotComChar", "DotComString"} ->
            CASE code.dotcom = "BYTE" -> BYTE
              [] code.dotcom = "WORD" -> WORD
              [] OTHER -> 0
      [] code.kind = "DotComSym" -> 2
      [] code.kind = "DotComAscii" -> Len(code.cSecondArg)
      [] OTHER -> 0

\* The identifiers a program of the model declares or uses, in strcmp order
\* (an upper-case letter precedes every lower-case one).
SymbolNames == <<"Alpha", "alpha", "beta", "gamma">>

strcmp(x, y) ==
    (CHOOSE k \in 1..Len(SymbolNames) : SymbolNames[k] = x)
    - (CHOOSE k \in 1..Len(SymbolNames) : SymbolNames[k] = y)

\* The walk both symbol routines make: the first node whose identifier is
\* not below cID, or one past the end.
RECURSIVE SymbolWalk(_, _, _)
SymbolWalk(list, cID, k) ==
    IF k <= Len(list) /\ strcmp(cID, list[k].cSymID) > 0
    THEN SymbolWalk(list, cID, k + 1)
    ELSE k

\* The lookup that tests the first node of the table only.
bLookUpSymbolHead(list, cID) ==
    list # <<>> /\ strcmp(cID, list[1].cSymID) = 0

bLookUpSymbol(list, cID) ==
    LET k == SymbolWalk(list, cID, 1)
    IN  k <= Len(list) /\ strcmp(cID, list[k].cSymID) = 0

\* [list, bPrevDef]: the table after the declaration, and whether the
\* declaration met an earlier one (the line then becomes eSymPrevDef).
vInstallSymbolAtEnd(list, cID, addr, idx) ==
    LET k == SymbolWalk(list, cID, 1)
    IN  IF k <= Len(list) /\ strcmp(cID, list[k].cSymID) = 0
        THEN [list |-> list, bPrevDef |-> TRUE]
        ELSE [list |-> Append(list, [cSymID |-> cID,
                                     cSymValue |-> vDecToHexWord(addr),
                                     iLine |-> idx]),
              bPrevDef |-> FALSE]

vInstallSymbol(list, cID, addr, idx) ==
    LET k == SymbolWalk(list, cID, 1)
    IN  IF k <= Len(list) /\ strcmp(cID, list[k].cSymID) = 0
        THEN [list |-> list, bPrevDef |-> TRUE]
        ELSE [list |-> SubSeq(list, 1, k - 1)
                       \o <<[cSymID |-> cID, cSymValue |-> vDecToHexWord(addr),
                             iLine |-> idx]>>
                       \o SubSeq(list, k, Len(list)),
              bPrevDef |-> FALSE]

vInstallUndeclaredSymbol(list, cID, idx) ==
    Append(list, [cSymID |-> cID, iLine |-> idx])

\* The symbol cID takes the value cVal (the table is unchanged when the
\* symbol is not in it).
vChangeSymValEquate(list, cID, cVal) ==
    [k \in 1..Len(list) |->
        IF list[k].cSymID = cID THEN [list[k] EXCEPT !.cSymValue = cVal]
        ELSE list[k]]

vInstallEquateNode(list, cID, cVal) ==
    <<[cSymID |-> cID, cSymValue |-> cVal]>> \o list

\* The symbols left where the first pass put them.
vChangeSymValBurnNone(list, iBurnStartAddress) == list

\* Every symbol moves by the burn offset.
vChangeSymValBurn(list, iBurnStartAddress) ==
    [k \in 1..Len(list) |->
        [list[k] EXCEPT !.cSymValue =
            vDecToHexWord(iHexWordToDecInt(list[k].cSymValue)
                          + iBurnStartAddress)]]

Tok(type, val) == [type |-> type, val |-> val]

vGetToken(toks) == IF toks = <<>> THEN Tok("eT_EMPTY", "") ELSE Head(toks)

cDotTable ==
    {"ADDRSS", "ASCII", "BLOCK", "BURN", "BYTE", "END", "EQUATE", "WORD"}

(***************************************************************************)
(* vProcessSourceLine: the parse of one line.  ParseStep is one turn of    *)
(* its loop in state psState on token tok; r holds what the loop has       *)
(* built: the code object of the line, the address counter, the two symbol *)
(* lists, term, the mnemonic (mn), the dot command (dotcom), the symbol    *)
(* declared (symVal) and the operand (sArg) met so far, and the globals of *)
(* .BURN and .EQUATE.  The states of the hexadecimal, character and string *)
(* operands of an instruction end the parse here: no line of the source    *)
(* programs below enters them.  The value of a hexadecimal token is its    *)
(* four digits, the value of a character or string token the bytes it      *)
(* denotes, each as two hexadecimal digits.                                *)
(***************************************************************************)
WithError(r, kind) == [r EXCEPT !.code = Error(kind)]

\* A mnemonic or a dot command opens the statement (states START and
\* SYMBOLDEC share this part).
StatementStart(tok, r, afterSymbol) ==
    IF tok.type = "eT_IDENTIFIER"
    THEN IF vLookUpMnemon(tok.val) # {}
         THEN LET mn == CHOOSE k \in vLookUpMnemon(tok.val) : TRUE
              IN  IF bIsUnary(cMnemonTable[mn])
                  THEN [psState |-> "ePS_CLOSE",
                        r |-> [r EXCEPT
                                 !.code = UnaryInstruction(r.addr, mn),
                                 !.addr = r.addr + UNARY,
                                 !.mn = mn]]
                  ELSE [psState |-> "ePS_INSTRUCTION",
                        r |-> [r EXCEPT !.mn = mn]]
         ELSE [psState |-> "ePS_START", r |-> WithError(r, "eInvMnemon")]
    ELSE IF tok.type = "eT_DOTCOMMAND"
    THEN IF tok.val \in cDotTable
         THEN IF tok.val = "END"
              THEN [psState |-> "ePS_CLOSE",
                    r |-> [r EXCEPT !.code = DotEnd(r.addr), !.term = TRUE]]
              ELSE IF afterSymbol /\ tok.val = "EQUATE"
              THEN [psState |-> "ePS_EQUATE",
                    r |-> [r EXCEPT !.dotcom = tok.val]]
              ELSE IF tok.val = "ASCII"
              THEN [psState |-> "ePS_ASCII",
                    r |-> [r EXCEPT !.dotcom = tok.val]]
              ELSE [psState |-> "ePS_DOTCOMMAND",
                    r |-> [r EXCEPT !.dotcom = tok.val]]
         ELSE [psState |-> "ePS_START", r |-> WithError(r, "eNoDotCom")]
    ELSE IF afterSymbol
    THEN IF tok.type = "eT_INVALID"
         THEN [psState |-> "ePS_SYMBOLDEC", r |-> WithError(r, "eInvSyntax")]
         ELSE [psState |-> "ePS_SYMBOLDEC", r |-> WithError(r, "eInstrDotExp")]
    ELSE [psState |-> "ePS_START", r |-> WithError(r, "eSymInstrDotExp")]

ParseStart(tok, r, idx) ==
    CASE tok.type \in {"eT_IDENTIFIER", "eT_DOTCOMMAND"} ->
            StatementStart(tok, r, FALSE)
      [] tok.type = "eT_SYMBOL" ->
            LET inst == vInstallSymbol(r.sym, tok.val, r.addr, idx)
            IN  [psState |-> "ePS_SYMBOLDEC",
                 r |-> IF inst.bPrevDef THEN WithError(r, "eSymPrevDef")
                       ELSE [r EXCEPT !.sym = inst.list, !.symVal = tok.val]]
      [] tok.type = "eT_EMPTY" ->
            [psState |-> "ePS_FINISH", r |-> [r EXCEPT !.code = ZeroArg]]
      [] tok.type = "eT_COMMENT" -> [psState |-> "ePS_COMMENT", r |-> r]
      [] tok.type = "eT_INVALIDCOMMENT" ->
            [psState |-> "ePS_START", r |-> WithError(r, "eCommentTooLong")]
      [] tok.type = "eT_INVALID" ->
            [psState |-> "ePS_START", r |-> WithError(r, "eInvSyntax")]
      [] OTHER ->
            [psState |-> "ePS_START", r |-> WithError(r, "eSymInstrDotExp")]

ParseInstruction(tok, r, idx) ==
    CASE tok.type = "eT_IDENTIFIER" ->
            [psState |-> "ePS_OPRNDSPECSYM",
             r |-> [r EXCEPT
                      !.undecl = vInstallUndeclaredSymbol(r.undecl, tok.val, idx),
                      !.sArg = tok.val]]
      [] tok.type = "eT_HEXCONSTANT" -> [psState |-> "ePS_OPRNDSPECHEX", r |-> r]
      [] tok.type = "eT_DECCONSTANT" ->
            IF tok.val >= MIN_DEC /\ tok.val <= MAX_DEC
            THEN [psState |-> "ePS_OPRNDSPECDEC", r |-> [r EXCEPT !.sArg = tok.val]]
            ELSE [psState |-> "ePS_INSTRUCTION", r |-> WithError(r, "eDecOverflow")]
      [] tok.type = "eT_CHARCONSTANT" -> [psState |-> "ePS_OPRNDSPECCHAR", r |-> r]
      [] tok.type = "eT_STRING" -> [psState |-> "ePS_OPRNDSPECSTRING", r |-> r]
      [] tok.type = "eT_INVALIDDEC" ->
            [psState |-> "ePS_INSTRUCTION", r |-> WithError(r, "eNoDecConst")]
      [] tok.type = "eT_INVALIDHEX" ->
            [psState |-> "ePS_INSTRUCTION", r |-> WithError(r, "eNoHexConst")]
      [] tok.type = "eT_INVALIDCHAR" ->
            [psState |-> "ePS_INSTRUCTION", r |-> WithError(r, "eNoCharConst")]
      [] tok.type = "eT_INVALIDSTRING" ->
            [psState |-> "ePS_INSTRUCTION", r |-> WithError(r, "eNoString")]
      [] tok.type = "eT_INVALIDADDR" ->
            [psState |-> "ePS_INSTRUCTION", r |-> WithError(r, "eNoAddr")]
      [] tok.type = "eT_INVALIDCOMMENT" ->
            [psState |-> "ePS_INSTRUCTION", r |-> WithError(r, "eCommentTooLong")]
      [] tok.type = "eT_INVALIDDOTCOMMAND" ->
            [psState |-> "ePS_INSTRUCTION", r |-> WithError(r, "eNoDotCom")]
      [] tok.type = "eT_INVALID" ->
            [psState |-> "ePS_INSTRUCTION", r |-> WithError(r, "eInvSyntax")]
      [] OTHER ->
            [psState |-> "ePS_INSTRUCTION", r |-> WithError(r, "eOprndSpecExp")]

\* States OPRNDSPECDEC and OPRNDSPECSYM, which differ in the code object
\* they build (InstructionDec or InstructionSym).
ParseOprndSpec(psState, tok, r) ==
    LET m == cMnemonTable[r.mn]
        Instruction(iAddr, mn, sArg, tArg) ==
            IF psState = "ePS_OPRNDSPECDEC"
            THEN InstructionDec(iAddr, mn, sArg, tArg)
            ELSE InstructionSym(iAddr, mn, sArg, tArg)
    IN  IF tok.type = "eT_ADDRMODE"
        THEN IF bValidAddrMode(m, tok.val)
             THEN [psState |-> "ePS_CLOSE",
                   r |-> [r EXCEPT
                            !.code = Instruction(r.addr, r.mn, r.sArg, tok.val),
                            !.addr = r.addr + NONUNARY]]
             ELSE [psState |-> psState, r |-> WithError(r, "eNoAddrmode")]
        ELSE IF tok.type = "eT_INVALID"
        THEN [psState |-> psState, r |-> WithError(r, "eInvSyntax")]
        ELSE IF bNoAddrModeRequired(m)
        THEN IF tok.type \in {"eT_EMPTY", "eT_COMMENT"}
             THEN [psState |-> IF tok.type = "eT_EMPTY" THEN "ePS_FINISH"
                               ELSE "ePS_COMMENT",
                   r |-> [r EXCEPT
                            !.code = Instruction(r.addr, r.mn, r.sArg, ""),
                            !.addr = r.addr + NONUNARY]]
             ELSE [psState |-> psState, r |-> WithError(r, "eAddrCommExp")]
        ELSE [psState |-> psState, r |-> WithError(r, "eAddrExp")]

\* The test of a string after .WORD with the length taken for bytes.
WordStringFitsBytes(iObjLength) == iObjLength <= 2 * WORD_LENGTH

\* The test of a string after .WORD: iObjLength counts hexadecimal digits.
WordStringFits(iObjLength) == iObjLength <= WORD_LENGTH

\* State DOTCOMMAND: the operand of .ADDRSS, .BLOCK, .BURN, .BYTE, .WORD,
\* and of an .EQUATE that no symbol precedes.
ParseDotCommand(tok, r, idx) ==
    LET dotcom == r.dotcom
        Accept(rr, code) ==
            [psState |-> "ePS_CLOSE",
             r |-> [rr EXCEPT !.code = code,
                              !.addr = rr.addr + iAddressCounter(code)]]
        Burn(code, iStart) ==
            [psState |-> "ePS_CLOSE",
             r |-> [r EXCEPT !.code = code,
                             !.iBurnAddr = r.addr,
                             !.addr = r.addr + iAddressCounter(code),
                             !.iBurnStart = iStart,
                             !.iBurnCounter = r.iBurnCounter + 1]]
        Reject(rr, kind) ==
            [psState |-> "ePS_DOTCOMMAND", r |-> WithError(rr, kind)]
        Stay == [psState |-> "ePS_DOTCOMMAND", r |-> r]
    IN  CASE tok.type = "eT_IDENTIFIER" ->
                LET r1 == [r EXCEPT !.undecl =
                              vInstallUndeclaredSymbol(r.undecl, tok.val, idx)]
                IN  IF dotcom = "ADDRSS"
                    THEN Accept(r1, DotComSym(r.addr, dotcom, tok.val))
                    ELSE IF dotcom = "EQUATE"
                    THEN Reject(r1, "eSymBeforeEquate")
                    ELSE Reject(r1, "eConstExp")
          [] tok.type = "eT_HEXCONSTANT" ->
                CASE dotcom = "ADDRSS" -> Reject(r, "eSymExpWithAddrss")
                  [] dotcom = "BLOCK" ->
                        IF tok.val[1] # "0" \/ tok.val[2] # "0"
                        THEN Reject(r, "eConstOverflow")
                        ELSE Accept(r, DotComHex(r.addr, dotcom, tok.val))
                  [] dotcom = "BURN" ->
                        IF r.iBurnCounter = 0
                        THEN Burn(DotComHex(r.addr, dotcom, tok.val),
                                  iHexWordToDecInt(tok.val))
                        ELSE Reject(r, "eOneBurn")
                  [] dotcom = "BYTE" ->
                        IF tok.val[1] = "0" /\ tok.val[2] = "0"
                        THEN Accept(r, DotComHex(r.addr, dotcom, tok.val))
                        ELSE Reject(r, "eByteOutOfRange")
                  [] dotcom = "EQUATE" -> Reject(r, "eSymBeforeEquate")
                  [] dotcom = "WORD" ->
                        Accept(r, DotComHex(r.addr, dotcom, tok.val))
                  [] OTHER -> Stay
          [] tok.type = "eT_CHARCONSTANT" ->
                CASE dotcom = "ADDRSS" -> Reject(r, "eSymExpWithAddrss")
                  [] dotcom \in {"BLOCK", "BURN"} -> Reject(r, "eDecHexExp")
                  [] dotcom \in {"BYTE", "WORD"} ->
                        Accept(r, DotComChar(r.addr, dotcom, <<tok.val>>))
                  [] dotcom = "EQUATE" -> Reject(r, "eSymBeforeEquate")
                  [] OTHER -> Stay
          [] tok.type = "eT_DECCONSTANT" ->
                LET iTemp == tok.val
                IN  CASE dotcom = "ADDRSS" -> Reject(r, "eSymExpWithAddrss")
                      [] dotcom = "BLOCK" ->
                            IF iTemp >= 0 /\ iTemp <= MAX_BYTE
                            THEN Accept(r, DotComDec(r.addr, dotcom, tok.val))
                            ELSE Reject(r, "eConstOverflow")
                      [] dotcom = "BURN" ->
                            IF r.iBurnCounter = 0
                            THEN IF iTemp >= 0 /\ iTemp <= MAX_ADDR
                                 THEN Burn(DotComDec(r.addr, dotcom, tok.val),
                                           iTemp)
                                 ELSE Reject(r, "eAddrOverflow")
                            ELSE Reject(r, "eOneBurn")
                      [] dotcom = "BYTE" ->
                            IF iTemp >= MIN_BYTE /\ iTemp <= MAX_BYTE
                            THEN Accept(r, DotComDec(r.addr, dotcom, tok.val))
                            ELSE Reject(r, "eByteOutOfRange")
                      [] dotcom = "EQUATE" ->
                            IF iTemp >= MIN_DEC /\ iTemp <= MAX_DEC
                            THEN Reject(r, "eSymBeforeEquate")
                            ELSE Reject(r, "eDecOverflow")
                      [] dotcom = "WORD" ->
                            IF iTemp >= MIN_DEC /\ iTemp <= MAX_DEC
                            THEN Accept(r, DotComDec(r.addr, dotcom, tok.val))
                            ELSE Reject(r, "eDecOverflow")
                      [] OTHER -> Stay
          [] tok.type = "eT_STRING" ->
                LET iObjLength == 2 * Len(tok.val)
                IN  CASE dotcom = "ADDRSS" -> Reject(r, "eSymExpWithAddrss")
                      [] dotcom \in {"BLOCK", "BURN"} ->
                            Reject(r, "eDecHexExp")
                      [] dotcom = "BYTE" ->
                            IF iObjLength = BYTE_LENGTH
                            THEN Accept(r, DotComString(r.addr, dotcom, tok.val))
                            ELSE Reject(r, "eByteStrTooLong")
                      [] dotcom = "WORD" ->
                            IF WordStringFits(iObjLength)
                            THEN Accept(r, DotComString(r.addr, dotcom, tok.val))
                            ELSE Reject(r, "eWordStrTooLong")
                      [] dotcom = "EQUATE" -> Reject(r, "eSymBeforeEquate")
                      [] OTHER -> Stay
          [] tok.type = "eT_INVALIDDEC" -> Reject(r, "eNoDecConst")
          [] tok.type = "eT_INVALIDHEX" -> Reject(r, "eNoHexConst")
          [] tok.type = "eT_INVALIDCHAR" -> Reject(r, "eNoCharConst")
          [] tok.type = "eT_INVALIDSTRING" -> Reject(r, "eNoString")
          [] tok.type = "eT_INVALIDADDR" -> Reject(r, "eNoAddr")
          [] tok.type = "eT_INVALIDCOMMENT" -> Reject(r, "eCommentTooLong")
          [] tok.type = "eT_INVALIDDOTCOMMAND" -> Reject(r, "eNoDotCom")
          [] tok.type = "eT_INVALID" -> Reject(r, "eInvSyntax")
          [] OTHER -> Reject(r, "eConstExp")

\* State ASCII.
ParseAscii(tok, r) ==
    IF tok.type = "eT_STRING"
    THEN LET code == DotComAscii(r.addr, r.dotcom, tok.val)
         IN  [psState |-> "ePS_CLOSE",
              r |-> [r EXCEPT !.code = code,
                              !.addr = r.addr + iAddressCounter(code)]]
    ELSE [psState |-> "ePS_ASCII", r |-> WithError(r, "eNoString")]

\* State EQUATE: the symbol declared on the line takes the operand for its
\* value and joins pEquate.
ParseEquate(tok, r) ==
    LET Define(cVal, code) ==
            [psState |-> "ePS_CLOSE",
             r |-> [r EXCEPT
                      !.sym = vChangeSymValEquate(r.sym, r.symVal, cVal),
                      !.pEquate = vInstallEquateNode(r.pEquate, r.symVal, cVal),
                      !.code = code,
                      !.addr = r.addr + iAddressCounter(code)]]
    IN  CASE tok.type = "eT_HEXCONSTANT" ->
                Define(tok.val, DotComHex(r.addr, r.dotcom, tok.val))
          [] tok.type = "eT_DECCONSTANT" ->
                Define(vDecToHexWord(tok.val),
                       DotComDec(r.addr, r.dotcom, tok.val))
          [] tok.type = "eT_CHARCONSTANT" ->
                Define(<<"0", "0", tok.val[1], tok.val[2]>>,
                       DotComChar(r.addr, r.dotcom, <<tok.val>>))
          [] tok.type = "eT_STRING" ->
                IF 2 * Len(tok.val) = WORD_LENGTH
                THEN Define(tok.val[1] \o tok.val[2],
                            DotComString(r.addr, r.dotcom, tok.val))
                ELSE IF 2 * Len(tok.val) = BYTE_LENGTH
                THEN Define(<<"0", "0">> \o tok.val[1],
                            DotComString(r.addr, r.dotcom, tok.val))
                ELSE [psState |-> "ePS_EQUATE",
                      r |-> WithError(r, "eEquateStrTooLong")]
          [] OTHER -> [psState |-> "ePS_EQUATE", r |-> WithError(r, "eInvSyntax")]

ParseClose(tok, r) ==
    CASE tok.type = "eT_EMPTY" -> [psState |-> "ePS_FINISH", r |-> r]
      [] tok.type = "eT_COMMENT" -> [psState |-> "ePS_COMMENT", r |-> r]
      [] tok.type = "eT_INVALID" ->
            [psState |-> "ePS_CLOSE", r |-> WithError(r, "eInvSyntax")]
      [] tok.type = "eT_INVALIDCOMMENT" ->
            [psState |-> "ePS_CLOSE", r |-> WithError(r, "eCommentTooLong")]
      [] tok.type \in {"eT_CHARCONSTANT", "eT_DECCONSTANT", "eT_HEXCONSTANT",
                       "eT_STRING"} ->
            [psState |-> "ePS_CLOSE", r |-> WithError(r, "eOperandUnexp")]
      [] OTHER -> [psState |-> "ePS_CLOSE", r |-> WithError(r, "eCommExp")]

ParseStep(psState, tok, r, idx) ==
    CASE psState = "ePS_START" -> ParseStart(tok, r, idx)
      [] psState = "ePS_SYMBOLDEC" -> StatementStart(tok, r, TRUE)
      [] psState = "ePS_DOTCOMMAND" -> ParseDotCommand(tok, r, idx)
      [] psState = "ePS_ASCII" -> ParseAscii(tok, r)
      [] psState = "ePS_EQUATE" -> ParseEquate(tok, r)
      [] psState = "ePS_INSTRUCTION" -> ParseInstruction(tok, r, idx)
      [] psState = "ePS_OPRNDSPECDEC" ->
            ParseOprndSpec(psState, tok, r)
      [] psState = "ePS_OPRNDSPECSYM" ->
            ParseOprndSpec(psState, tok, r)
      [] psState = "ePS_COMMENT" ->
            [psState |-> IF tok.type = "eT_EMPTY" THEN "ePS_FINISH"
                         ELSE "ePS_COMMENT",
             r |-> r]
      [] psState = "ePS_CLOSE" -> ParseClose(tok, r)
      [] OTHER -> [psState |-> "ePS_FINISH", r |-> r]

\* The checks with the overflow recorded and the first pass left running.
ParseLimitsGoOn(r, idx) ==
    LET r1 == IF idx >= MAX_LINES
              THEN [r EXCEPT !.code = Error("eTooLong")] ELSE r
    IN  IF r1.addr >= CODE_MAX_SIZE - 2
        THEN [r1 EXCEPT !.code = Error("eProgTooLong")] ELSE r1

\* The two checks that close every turn of the loop.
ParseLimits(r, idx) ==
    LET r1 == IF idx >= MAX_LINES
              THEN [r EXCEPT !.code = Error("eTooLong"), !.term = TRUE] ELSE r
    IN  IF r1.addr >= CODE_MAX_SIZE - 2
        THEN [r1 EXCEPT !.code = Error("eProgTooLong"), !.term = TRUE] ELSE r1

RECURSIVE ParseLoop(_, _, _, _)
ParseLoop(psState, toks, r, idx) ==
    LET st == ParseStep(psState, vGetToken(toks), r, idx)
        r2 == ParseLimits(st.r, idx)
    IN  IF st.psState # "ePS_FINISH" /\ ~bIsError(r2.code)
        THEN ParseLoop(st.psState, IF toks = <<>> THEN <<>> ELSE Tail(toks),
                       r2, idx)
        ELSE r2

\* The globals of .BURN and .EQUATE before the first line.
NoBurn == [iBurnCounter |-> 0, iBurnAddr |-> 0, iBurnStart |-> 0,
           pEquate |-> <<>>]

\* The line's outcome: [code, addr, sym, undecl, term, mn, sArg, ...]; burn
\* holds the globals of .BURN and .EQUATE as the line finds them.
vProcessSourceLine(toks, idx, addr, sym, undecl, term, burn) ==
    ParseLoop("ePS_START", toks,
              [code |-> ZeroArg, addr |-> addr, sym |-> sym, undecl |-> undecl,
               term |-> term, mn |-> 0, sArg |-> "", dotcom |-> "",
               symVal |-> "", iBurnCounter |-> burn.iBurnCounter,
               iBurnAddr |-> burn.iBurnAddr, iBurnStart |-> burn.iBurnStart,
               pEquate |-> burn.pEquate],
              idx)

\* vGenerateHexCode: the bytes of the object file a code object yields,
\* each as its two hexadecimal digits.
vGetSymbolValue(list, cID) ==
    (CHOOSE k \in 1..Len(list) : list[k].cSymID = cID)

\* n bytes 00.
ZeroBytes(n) == [i \in 1..n |-> <<"0", "0">>]

\* The statement's bytes when it lies before the .BURN statement: none.
BelowBurnZeroFill(bytes) == ZeroBytes(Len(bytes))

BelowBurn(bytes) == <<>>

\* The bytes of a code object before the test of .BURN.
HexCode(code, list) ==
    LET m == cMnemonTable[code.mn]
        cByte == vDecToHexByte(m.iOpCode
                     + iAddrModeValue(code.cThirdArg, bNoAddrModeRequired(m)))
        Word(cWord) == <<<<cWord[1], cWord[2]>>, <<cWord[3], cWord[4]>>>>
    IN  CASE code.kind = "UnaryInstruction" -> <<vDecToHexByte(m.iOpCode)>>
          [] code.kind = "InstructionDec" ->
                <<cByte>> \o Word(vDecToHexWord(code.cSecondArg))
          [] code.kind = "InstructionSym" ->
                <<cByte>>
                \o Word(list[vGetSymbolValue(list, code.cSecondArg)].cSymValue)
          [] code.kind = "DotComDec" ->
                CASE code.dotcom = "BLOCK" -> ZeroBytes(code.cSecondArg)
                  [] code.dotcom = "BYTE" -> <<vDecToHexByte(code.cSecondArg)>>
                  [] code.dotcom = "WORD" -> Word(vDecToHexWord(code.cSecondArg))
                  [] OTHER -> <<>>
          [] code.kind = "DotComHex" ->
                CASE code.dotcom = "BLOCK" ->
                        ZeroBytes(iHexWordToDecInt(code.cSecondArg))
                  [] code.dotcom = "BYTE" ->
                        <<<<code.cSecondArg[3], code.cSecondArg[4]>>>>
                  [] code.dotcom = "WORD" -> Word(code.cSecondArg)
                  [] OTHER -> <<>>
          [] code.kind = "DotComChar" ->
                CASE code.dotcom = "BYTE" -> code.cSecondArg
                  [] code.dotcom = "WORD" -> <<<<"0", "0">>>> \o code.cSecondArg
                  [] OTHER -> <<>>
          [] code.kind = "DotComString" ->
                CASE code.dotcom = "BYTE" -> code.cSecondArg
                  [] code.dotcom = "WORD" ->
                        IF 2 * Len(code.cSecondArg) = 2
                        THEN <<<<"0", "0">>>> \o code.cSecondArg
                        ELSE code.cSecondArg
                  [] OTHER -> <<>>
          [] code.kind = "DotComSym" ->
                Word(list[vGetSymbolValue(list, code.cSecondArg)].cSymValue)
          [] code.kind = "DotComAscii" -> code.cSecondArg
          [] OTHER -> <<>>

\* vGenerateHexCode(false).  A statement before the .BURN statement yields
\* nothing; .WORD with a string operand is written without that test.
vGenerateHexCode(code, list, burnCounter, burnAddr) ==
    IF \/ burnCounter = 0
       \/ code.iAddress >= burnAddr
       \/ code.kind = "DotComString" /\ code.dotcom = "WORD"
    THEN HexCode(code, list)
    ELSE BelowBurn(HexCode(code, list))

(***************************************************************************)
(* main of the assembler.  The first pass reads the source line by line    *)
(* until the file ends or a line sets bTerminate; the lines come from      *)
(* SourceLines and the file may end after any of them.  Then every symbol  *)
(* used as an operand is looked up, and the object file is generated or    *)
(* the errors are reported.  A cell of iLineErrors that was never assigned *)
(* holds Uninit; reading it yields a value that may or may not be the one  *)
(* it is compared with, and a cell found equal to a line number holds that *)
(* line number.                                                            *)
(***************************************************************************)
MaxLines == 3

MaxDotLines == 4

Uninit == -1

ErrSize == 2 * (MaxLines + MaxDotLines) + 3

SourceLines ==
    {<<>>,
     <<Tok("eT_COMMENT", "")>>,
     <<Tok("eT_IDENTIFIER", "STOP")>>,
     <<Tok("eT_SYMBOL", "alpha"), Tok("eT_IDENTIFIER", "STOP")>>,
     <<Tok("eT_SYMBOL", "Alpha"), Tok("eT_IDENTIFIER", "STOP")>>,
     <<Tok("eT_IDENTIFIER", "LDA"), Tok("eT_DECCONSTANT", 5),
       Tok("eT_ADDRMODE", "i")>>,
     <<Tok("eT_IDENTIFIER", "BR"), Tok("eT_IDENTIFIER", "alpha")>>,
     <<Tok("eT_IDENTIFIER", "LDA"), Tok("eT_IDENTIFIER", "beta"),
       Tok("eT_ADDRMODE", "d")>>,
     <<Tok("eT_SYMBOL", "beta"), Tok("eT_DOTCOMMAND", "END")>>,
     <<Tok("eT_IDENTIFIER", "FOO")>>,
     <<Tok("eT_IDENTIFIER", "STA"), Tok("eT_IDENTIFIER", "gamma"),
       Tok("eT_ADDRMODE", "i")>>,
     <<Tok("eT_DOTCOMMAND", "ADDRSS"), Tok("eT_IDENTIFIER", "beta")>>,
     <<Tok("eT_DOTCOMMAND", "END")>>,
     <<Tok("eT_DOTCOMMAND", "END"), Tok("eT_DECCONSTANT", 5)>>,
     <<Tok("eT_IDENTIFIER", "NOP")>>}

\* The lines of a source file of dot commands.
DotLines ==
    {<<>>,
     <<Tok("eT_COMMENT", "")>>,
     <<Tok("eT_IDENTIFIER", "STOP")>>,
     <<Tok("eT_IDENTIFIER", "LDA"), Tok("eT_DECCONSTANT", 5),
       Tok("eT_ADDRMODE", "i")>>,
     <<Tok("eT_SYMBOL", "alpha"), Tok("eT_DOTCOMMAND", "BLOCK"),
       Tok("eT_DECCONSTANT", 57)>>,
     <<Tok("eT_DOTCOMMAND", "BLOCK"), Tok("eT_HEXCONSTANT", <<"0", "0", "0", "0">>)>>,
     <<Tok("eT_DOTCOMMAND", "BYTE"), Tok("eT_DECCONSTANT", -1)>>,
     <<Tok("eT_SYMBOL", "beta"), Tok("eT_DOTCOMMAND", "WORD"),
       Tok("eT_STRING", <<<<"4", "8">>, <<"6", "9">>>>)>>,
     <<Tok("eT_DOTCOMMAND", "ADDRSS"), Tok("eT_IDENTIFIER", "alpha")>>,
     <<Tok("eT_DOTCOMMAND", "ASCII"),
       Tok("eT_STRING", <<<<"4", "8">>, <<"6", "9">>, <<"0", "0">>>>)>>,
     <<Tok("eT_SYMBOL", "gamma"), Tok("eT_DOTCOMMAND", "EQUATE"),
       Tok("eT_DECCONSTANT", 7)>>,
     <<Tok("eT_DOTCOMMAND", "BURN"), Tok("eT_HEXCONSTANT", <<"F", "F", "C", "7">>)>>,
     <<Tok("eT_DOTCOMMAND", "BURN"), Tok("eT_DECCONSTANT", 16)>>,
     <<Tok("eT_DOTCOMMAND", "END")>>}

\* A long source file: it begins with as many lines .BLOCK 255 as stay
\* below the size a program may have, and goes on with lines of LongLines.
BlockLine == <<Tok("eT_DOTCOMMAND", "BLOCK"), Tok("eT_DECCONSTANT", MAX_BYTE)>>

PrefixLines == (CODE_MAX_SIZE - 2) \div MAX_BYTE

LongLines ==
    {BlockLine,
     <<Tok("eT_IDENTIFIER", "STOP")>>,
     <<Tok("eT_IDENTIFIER", "FOO")>>,
     <<Tok("eT_IDENTIFIER", "BR"), Tok("eT_IDENTIFIER", "alpha")>>,
     <<Tok("eT_DOTCOMMAND", "END")>>}

\* Statements with an operand at the edges of what a statement takes: a
\* string of 1 to 5 bytes after .WORD and of 1 to 2 bytes after .BYTE, and a
\* decimal constant around -32768 and 65535 after an instruction, after .WORD
\* and after .EQUATE.
StringOf(n) == [i \in 1..n |-> <<"4", cDecToHex(i)>>]

DecEdges == {MIN_DEC - 1, MIN_DEC, MAX_DEC, MAX_DEC + 1, MAX_DEC + MAX_DEC}

OperandLines ==
    {<<Tok("eT_DOTCOMMAND", "WORD"), Tok("eT_STRING", StringOf(n))>> :
        n \in 1..(WORD_LENGTH + 1)}
    \cup
    {<<Tok("eT_DOTCOMMAND", "BYTE"), Tok("eT_STRING", StringOf(n))>> :
        n \in 1..BYTE_LENGTH}
    \cup
    {<<Tok("eT_IDENTIFIER", "LDA"), Tok("eT_DECCONSTANT", v),
       Tok("eT_ADDRMODE", "i")>> : v \in DecEdges}
    \cup
    {<<Tok("eT_DOTCOMMAND", "WORD"), Tok("eT_DECCONSTANT", v)>> : v \in DecEdges}
    \cup
    {<<Tok("eT_SYMBOL", "gamma"), Tok("eT_DOTCOMMAND", "EQUATE"),
       Tok("eT_DECCONSTANT", v)>> : v \in DecEdges}
    \cup
    {<<Tok("eT_IDENTIFIER", "LDA"), Tok("eT_IDENTIFIER", "gamma"),
       Tok("eT_ADDRMODE", "i")>>,
     <<Tok("eT_DOTCOMMAND", "END")>>}

NoObjectFile == [written |-> FALSE, bytes |-> <<>>, text |-> <<>>]

\* The separator after a byte of the object file, on a line of 17 bytes.
vHexOutputBufferLoaderLong(iHexOutputBuffer) ==
    IF iHexOutputBuffer = OBJ_FILE_LINE_LENGTH
    THEN [out |-> "\n", iHexOutputBuffer |-> 0]
    ELSE [out |-> " ", iHexOutputBuffer |-> iHexOutputBuffer + 1]

\* The separator after a byte of the object file, and the count of the
\* bytes on the line.
vHexOutputBufferLoader(iHexOutputBuffer) ==
    IF iHexOutputBuffer = OBJ_FILE_LINE_LENGTH - 1
    THEN [out |-> "\n", iHexOutputBuffer |-> 0]
    ELSE [out |-> " ", iHexOutputBuffer |-> iHexOutputBuffer + 1]

\* The characters out_file receives for the bytes lo..hi, each byte with the
\* separator vHexOutputBufferLoader writes after it, and the count left.
RECURSIVE OutFile(_, _, _, _)
OutFile(bytes, lo, hi, iHexOutputBuffer) ==
    IF lo > hi THEN [text |-> <<>>, iHexOutputBuffer |-> iHexOutputBuffer]
    ELSE IF lo = hi
    THEN LET l == vHexOutputBufferLoader(iHexOutputBuffer)
         IN  [text |-> <<bytes[lo][1], bytes[lo][2], l.out>>,
              iHexOutputBuffer |-> l.iHexOutputBuffer]
    ELSE LET mid == (lo + hi) \div 2
             first == OutFile(bytes, lo, mid, iHexOutputBuffer)
             rest == OutFile(bytes, mid + 1, hi, first.iHexOutputBuffer)
         IN  [text |-> first.text \o rest.text,
              iHexOutputBuffer |-> rest.iHexOutputBuffer]

\* The value main of the assembler returns to the shell.
NotReturned == [returned |-> FALSE, value |-> 0]

Returned(iValue) == [returned |-> TRUE, value |-> iValue]

\* One turn of the first pass's loop on a line of the set lines, in a file
\* of at most max lines.
ReadLine(lines, max) ==
    /\ phase = "first pass"
    /\ ~bTerminate
    /\ iCodeIndex < max
    /\ \E line \in lines :
         LET r == vProcessSourceLine(line, iCodeIndex, iCurrentAddress,
                                     pSymbol, pUndeclaredSym, bTerminate,
                                     [iBurnCounter |-> iBurnCounter,
                                      iBurnAddr |-> iBurnAddr,
                                      iBurnStart |-> iBurnStart,
                                      pEquate |-> pEquate])
         IN  /\ srcLines' = Append(srcLines, line)
             /\ iBurnCounter' = r.iBurnCounter
             /\ iBurnAddr' = r.iBurnAddr
             /\ iBurnStart' = r.iBurnStart
             /\ pEquate' = r.pEquate
             /\ pACode' = Append(pACode, r.code)
             /\ iCurrentAddress' = r.addr
             /\ pSymbol' = r.sym
             /\ pUndeclaredSym' = r.undecl
             /\ bTerminate' = r.term
             /\ IF bIsError(r.code)
                THEN /\ iLineErrors' =
                           [iLineErrors EXCEPT ![iErrorIndex] = iCodeIndex]
                     /\ iErrorIndex' = iErrorIndex + 1
                ELSE UNCHANGED <<iLineErrors, iErrorIndex>>
    /\ iCodeIndex' = iCodeIndex + 1
    /\ UNCHANGED <<sUnimpMnemon, trapLines, phase, iScan, objectFile, mainReturn>>
    /\ UNCHANGED <<cpuVars, alu, codec>>

FirstPass == ReadLine(SourceLines, MaxLines)

FirstPassDot == ReadLine(DotLines, MaxDotLines)

FirstPassLong == ReadLine(LongLines, PrefixLines + MaxLines)

FirstPassOperand == ReadLine(OperandLines, MaxLines)

EndFirstPass ==
    /\ phase = "first pass"
    /\ phase' = "resolve"
    /\ iScan' = 0
    /\ UNCHANGED <<sUnimpMnemon, trapLines, srcLines, iCodeIndex, pACode, iCurrentAddress,
                   pSymbol, pUndeclaredSym, bTerminate, iLineErrors,
                   iErrorIndex, objectFile>>
    /\ UNCHANGED <<cpuVars, alu, codec, burnVars, mainReturn>>

\* Where the search for the insertion point can stop, starting at index k.
RECURSIVE ScanEnds(_, _)
ScanEnds(k, iLine) ==
    IF k < iErrorIndex
    THEN IF iLineErrors[k] = Uninit THEN {k} \cup ScanEnds(k + 1, iLine)
         ELSE IF iLineErrors[k] < iLine THEN ScanEnds(k + 1, iLine)
         ELSE {k}
    ELSE {k}

\* iLineErrors after the insertion of iLine at index k.
InsertErrorLine(k, iLine) ==
    LET iTemp == iLineErrors[k]
    IN  [j \in DOMAIN iLineErrors |->
            IF j = k THEN iLine
            ELSE IF j = k + 1 THEN iTemp
            ELSE IF j > k + 1 /\ j <= iErrorIndex + 1 THEN iLineErrors[j - 1]
            ELSE iLineErrors[j]]

ResolveSymbol ==
    /\ phase = "resolve"
    /\ pUndeclaredSym # <<>>
    /\ LET node == Head(pUndeclaredSym)
       IN  IF ~bLookUpSymbol(pSymbol, node.cSymID)
           THEN /\ pACode' = [pACode EXCEPT ![node.iLine + 1] =
                                                Error("eSymNotDefined")]
                /\ \E k \in ScanEnds(iScan, node.iLine) :
                     /\ iScan' = k
                     /\ \E bDiffers \in
                            (IF iLineErrors[k] = Uninit THEN BOOLEAN
                             ELSE {iLineErrors[k] # node.iLine}) :
                          iLineErrors' =
                              IF bDiffers
                              THEN InsertErrorLine(k, node.iLine)
                              ELSE [iLineErrors EXCEPT ![k] = node.iLine]
                /\ iErrorIndex' = iErrorIndex + 1
           ELSE UNCHANGED <<pACode, iScan, iLineErrors, iErrorIndex>>
    /\ pUndeclaredSym' = Tail(pUndeclaredSym)
    /\ UNCHANGED <<sUnimpMnemon, trapLines, phase, srcLines, iCodeIndex, iCurrentAddress,
                   pSymbol, bTerminate, objectFile>>
    /\ UNCHANGED <<cpuVars, alu, codec, burnVars, mainReturn>>

\* main's test before it generates the object file.
ObjectFileDueWithoutEnd(iErrors, bTerm) == iErrors = 0

ObjectFileDue(iErrors, bTerm) == iErrors = 0 /\ bTerm

\* The bytes of the lines lo..hi in the order of the lines.
RECURSIVE HexCodeOfRange(_, _, _, _, _, _)
HexCodeOfRange(codes, list, lo, hi, burnCounter, burnAddr) ==
    IF lo > hi THEN <<>>
    ELSE IF lo = hi
    THEN vGenerateHexCode(codes[lo], list, burnCounter, burnAddr)
    ELSE LET mid == (lo + hi) \div 2
         IN  HexCodeOfRange(codes, list, lo, mid, burnCounter, burnAddr)
             \o HexCodeOfRange(codes, list, mid + 1, hi, burnCounter, burnAddr)

HexCodeOfLines(codes, list, k, burnCounter, burnAddr) ==
    HexCodeOfRange(codes, list, k, Len(codes), burnCounter, burnAddr)

\* main's relocation for .BURN: the offset that brings the last byte of the
\* program to the operand of .BURN.
BurnDue == iBurnCounter > 0 /\ iErrorIndex = 0

BurnOffsetToNextByte(iStart, iCurrent) == iStart - iCurrent

BurnOffset(iStart, iCurrent) == iStart - iCurrent + 1

\* Every symbol of pEquate takes its literal value again, the head first.
RECURSIVE RestoreEquates(_, _)
RestoreEquates(list, equ) ==
    IF equ = <<>> THEN list
    ELSE RestoreEquates(vChangeSymValEquate(list, Head(equ).cSymID,
                                            Head(equ).cSymValue),
                        Tail(equ))

RestoreNoEquates(list, equ) == list

vBurnAddressChange(code, iOffset) ==
    IF code.kind = "ZeroArg" THEN code
    ELSE [code EXCEPT !.iAddress = code.iAddress + iOffset]

GenerateObjectFile ==
    /\ phase = "resolve"
    /\ pUndeclaredSym = <<>>
    /\ phase' = "done"
    /\ mainReturn' = Returned(0)
    /\ LET iOffset == BurnOffset(iBurnStart, iCurrentAddress)
           symbols == IF BurnDue
                      THEN RestoreEquates(vChangeSymValBurn(pSymbol, iOffset),
                                          pEquate)
                      ELSE pSymbol
           codes == IF BurnDue
                    THEN [k \in 1..Len(pACode) |->
                             vBurnAddressChange(pACode[k], iOffset)]
                    ELSE pACode
           burnAddr == IF BurnDue THEN iBurnAddr + iOffset ELSE iBurnAddr
           hex == HexCodeOfLines(codes, symbols, 1, iBurnCounter, burnAddr)
       IN  /\ pSymbol' = symbols
           /\ iBurnAddr' = burnAddr
           /\ iBurnStart' = IF BurnDue THEN iOffset ELSE iBurnStart
           /\ IF ObjectFileDue(iErrorIndex, bTerminate)
              THEN /\ objectFile' =
                         [written |-> TRUE,
                          bytes |-> hex \o <<<<"z", "z">>>>,
                          text |-> OutFile(hex, 1, Len(hex), 0).text
                                   \o <<"z", "z", "\n">>]
                   /\ pACode' = codes
                   /\ UNCHANGED <<iLineErrors, iErrorIndex>>
              ELSE /\ objectFile' = objectFile
                   /\ IF ~bTerminate
                      THEN /\ pACode' = Append(codes, Error("eNoEnd"))
                           /\ iLineErrors' =
                                 [iLineErrors EXCEPT ![iErrorIndex] = iCodeIndex]
                           /\ iErrorIndex' = iErrorIndex + 1
                      ELSE /\ pACode' = codes
                           /\ UNCHANGED <<iLineErrors, iErrorIndex>>
    /\ UNCHANGED <<sUnimpMnemon, trapLines, srcLines, iCodeIndex, iCurrentAddress,
                   pUndeclaredSym, bTerminate, iScan, iBurnCounter, pEquate>>
    /\ UNCHANGED <<cpuVars, alu, codec>>

(***************************************************************************)
(* The adder and the subtractor applied to a pair of words.                *)
(***************************************************************************)
ApplyAdder ==
    /\ alu.op = "none"
    /\ LET r == Adder(alu.Op1, alu.Op2)
       IN  alu' = [alu EXCEPT !.op = "Adder", !.Result = r.Result,
                              !.Carry = r.Carry, !.Ovflw = r.Ovflw]
    /\ UNCHANGED <<cpuVars, codec, asmVars>>

ApplySubtractor ==
    /\ alu.op = "none"
    /\ LET r == Subtractor(alu.Op1, alu.Op2)
       IN  alu' = [alu EXCEPT !.op = "Subtractor", !.Result = r.Result,
                              !.Carry = r.Carry, !.Ovflw = r.Ovflw]
    /\ UNCHANGED <<cpuVars, codec, asmVars>>

(***************************************************************************)
(* One statement through both tools: the assembler translates the line and *)
(* generates its bytes, the bytes stand at address 0 (the loader of the     *)
(* operating system puts them there; a pair of hexadecimal digits is read  *)
(* as InstallRom reads it) and the simulator fetches there.  Decode is     *)
(* what the handler Execute dispatches to reads from the instruction       *)
(* specifier.                                                              *)
(***************************************************************************)
Decode(spec) ==
    LET mn == instr_SpecToMnemon(spec)
        unary == bSearchIntArray(iUnaryOpcodes, UNARY_OPCODES, mn)
    IN  [mnemon |-> mn,
         unary |-> unary,
         mode |-> IF mn \in {"eM_BR", "eM_BRLE", "eM_BRLT", "eM_BREQ",
                             "eM_BRNE", "eM_BRGE", "eM_BRGT", "eM_BRV",
                             "eM_BRC", "eM_CALL"}
                  THEN ProcessAddressingMode(GetAddressingModeOneBit(spec))
                  ELSE IF unary THEN "none"
                  ELSE ProcessAddressingMode(GetAddressingModeThreeBits(spec)),
         reg |-> IF mn \in {"eM_NOTr", "eM_NEGr", "eM_ASLr", "eM_ASRr",
                            "eM_ROLr", "eM_RORr"}
                 THEN ProcessRegisterType(GetRegisterTypeLastBit(spec))
                 ELSE IF mn \in {"eM_ADDr", "eM_SUBr", "eM_ANDr", "eM_ORr",
                                 "eM_CPr", "eM_LDr", "eM_LDBYTEr", "eM_STr",
                                 "eM_STBYTEr"}
                 THEN ProcessRegisterType(GetRegisterTypeFourthBit(spec))
                 ELSE "none",
         n |-> IF mn = "eM_RETn" THEN GetNValueThreeBits(spec) ELSE -1]

AssembleStatement ==
    /\ codec.stage = "source"
    /\ LET r == vProcessSourceLine(codec.line, 0, 0, <<>>, <<>>, FALSE, NoBurn)
       IN  codec' = IF bIsError(r.code)
                    THEN [codec EXCEPT !.stage = "rejected", !.code = r.code]
                    ELSE [codec EXCEPT !.stage = "assembled", !.code = r.code,
                             !.objCode = vGenerateHexCode(r.code, r.sym, 0, 0)]
    /\ UNCHANGED <<cpuVars, alu, asmVars>>

LoadAndFetch ==
    /\ codec.stage = "assembled"
    /\ LET mem == iMemory @@ [i \in 0..(Len(codec.objCode) - 1) |->
                                 iHexByteToDecInt(codec.objCode[i + 1])]
           f == Fetch(mem, Reg(0, 0), codec.IR)
       IN  codec' = [codec EXCEPT !.stage = "fetched", !.IR = f.IR,
                                  !.PC = f.PC]
    /\ UNCHANGED <<cpuVars, alu, asmVars>>

(***************************************************************************)
(* Initial states: the machine at an instruction boundary of a run, after  *)
(* InstallRom and the load of an object program.  A scenario fixes the     *)
(* program bytes at the program counter, the registers and flags the       *)
(* earlier instructions left, and the system stack vector of the           *)
(* operating-system file.                                                  *)
(***************************************************************************)
Spread == 1

EdgeWords ==
    UNION {{w \in (e - Spread)..(e + Spread) : w >= 0 /\ w <= 65535} :
              e \in {0, 128, 256, 32768, 65536}}

RegOf(w) == Reg(w \div 256, w % 256)

Instr(spec, os) == <<spec, os \div 256, os % 256>>

NoBoundary == [A |-> Reg(0, 0), X |-> Reg(0, 0), PC |-> Reg(0, 0),
               SP |-> Reg(0, 0), N |-> FALSE, Z |-> FALSE, V |-> FALSE,
               C |-> FALSE]

AluIdle == [op |-> "none", Op1 |-> Reg(0, 0), Op2 |-> Reg(0, 0),
            Result |-> Reg(0, 0), Carry |-> FALSE, Ovflw |-> FALSE]

Scenario(prog, A, X, SP, N, Z, V, C, T, cell) ==
    [prog |-> prog, A |-> A, X |-> X, SP |-> SP, N |-> N, Z |-> Z, V |-> V,
     C |-> C, T |-> T, stray |-> cell]

BranchScenarios ==
    {Scenario(Instr(spec, os), 4660, X, 64256, N, Z, V, C, 65520, 0) :
        spec \in 4..23, os \in {0, 16, 65519, 65534, 65535},
        X \in {0, 2, 65535}, N \in BOOLEAN, Z \in BOOLEAN, V \in BOOLEAN,
        C \in BOOLEAN}

AddrScenarios ==
    {Scenario(Instr(base + m, os), 32769, X, SP, f, f, f, f, 65520, 0) :
        base \in {96, 104, 112, 136, 144, 168, 176, 192, 200}, m \in 0..7,
        os \in {0, 7, 65533, 65535}, X \in {0, 3, 65535},
        SP \in {64256, 65535, 2}, f \in BOOLEAN}

WordScenarios ==
    {Scenario(Instr(spec, v), r, r, r, FALSE, FALSE, FALSE, FALSE, 65520, 0) :
        spec \in {96, 104, 112, 120, 128, 136, 176, 184},
        r \in EdgeWords, v \in EdgeWords}

TrapScenarios ==
    {Scenario(Instr(spec, 258), A, 43981, SP, N, Z, V, C, T, 0) :
        spec \in 36..71, A \in {0, 4660}, SP \in {64256, 65516},
        N \in BOOLEAN, Z \in BOOLEAN, V \in BOOLEAN, C \in BOOLEAN,
        T \in {65520, 65524, 6, 10}}

StoreScenarios ==
    {Scenario(Instr(spec, os), 42330, X, 64256, FALSE, TRUE, FALSE, TRUE,
              65520, 0) :
        spec \in (72..87) \cup (208..255),
        os \in {5, 65518, 65519, 65520, 65535}, X \in {0, 1}}

UnaryScenarios ==
    {Scenario(Instr(spec, 0), r, r, SP, f, ~f, f, ~f, 65520, 0) :
        spec \in (0..35) \cup (88..95),
        r \in {0, 1, 255, 256, 32768, 65535}, SP \in {64256, 65534},
        f \in BOOLEAN}

\* ASLr on 0x4000 and its neighbours, where bits 15 and 14 differ.
ShiftScenarios ==
    {Scenario(Instr(spec, 0), r, r, 64256, f, ~f, f, f, 65520, 0) :
        spec \in {28, 29}, r \in {16383, 16384, 49151, 49152},
        f \in BOOLEAN}

\* ROLX doubles the halves of X out of the byte range; the indexed load
\* that follows then indexes iMemory past its end.
StrayScenarios ==
    {Scenario(<<33, 197, 254, 255>>, 0, 255, 64256, FALSE, FALSE, FALSE,
              FALSE, 65520, cell) : cell \in {0, 65520}}

\* CALL to address 4, where RETn stands; STOP follows the CALL.  The
\* indexed CALL finds its target in the word at 5.
CallScenarios ==
    {Scenario(<<spec, 0, spec - 18, 0, 88 + n, 0, 4>>, 4660, 0, SP, FALSE,
              FALSE, FALSE, FALSE, 65520, 0) :
        spec \in {22, 23}, n \in {0, 1},
        SP \in {64256, 65521, 65520, 6, 2, 1, 0}}

Scenarios ==
    BranchScenarios \cup AddrScenarios \cup WordScenarios \cup TrapScenarios
    \cup StoreScenarios \cup UnaryScenarios \cup StrayScenarios
    \cup CallScenarios \cup ShiftScenarios

\* The machine with a program loaded, the tracer as main leaves it.
Loaded(sc) ==
    /\ iRomStartAddr = TOP_OF_MEMORY - iNumBytes + 1
    /\ iMemory = InstallRom(ROMFile(sc.T))
                 @@ [i \in 0..(Len(sc.prog) - 1) |-> sc.prog[i + 1]]
    /\ stray = sc.stray
    /\ sR_Accumulator = RegOf(sc.A)
    /\ sR_IndexRegister = RegOf(sc.X)
    /\ sR_StackPointer = RegOf(sc.SP)
    /\ sR_ProgramCounter = Reg(0, 0)
    /\ sIR_InstrRegister = [iInstr_Spec |-> 0, sR_OprndSpec |-> Reg(0, 0)]
    /\ bStatusN = sc.N
    /\ bStatusZ = sc.Z
    /\ bStatusV = sc.V
    /\ bStatusC = sc.C
    /\ cycle = "fetch"
    /\ R0 = Reg(0, 0)
    /\ trace = <<>>
    /\ trapBoundary = NoBoundary
    /\ callBoundary = [SP |-> Reg(0, 0), PC |-> Reg(0, 0)]
    /\ runError = NoRunError
    /\ eTraceMode = "eT_TR_OFF"
    /\ bSingleStep = FALSE
    /\ bScrollingTrace = FALSE
    /\ iLineCount = 0
    /\ numTerminalLines = 22
    /\ TraceAddr = Reg(0, 0)
    /\ traceAnswer = ""
    /\ dump = [pc |-> "menu", StartAddress |-> Reg(0, 0),
               EndAddress |-> Reg(0, 0), Address |-> 0, Carry |-> FALSE,
               output |-> <<>>, asked |-> <<>>]

\* The machine at the first instruction boundary of a run.
Boot(sc) == Loaded(sc) /\ Halt = FALSE

\* The standard trap file and two others: one whose fifth line names no
\* addressing mode, one that spreads the modes differently.
StandardTraps == <<0, 0, 0, 0, 1, 254, 255, 22>>

TrapRegistries ==
    {StandardTraps, <<0, 0, 0, 0, 0, 254, 255, 22>>,
     <<0, 0, 0, 0, 32, 0, 129, 255>>}

CodecIdle ==
    [stage |-> "idle", line |-> <<>>, code |-> ZeroArg, objCode |-> <<>>,
     IR |-> [iInstr_Spec |-> 0, sR_OprndSpec |-> Reg(0, 0)],
     PC |-> Reg(0, 0)]

\* The assembler before main opens anything.
AsmIdle ==
    /\ sUnimpMnemon = StandardTraps
    /\ phase = "idle"
    /\ srcLines = <<>>
    /\ iCodeIndex = 0
    /\ pACode = <<>>
    /\ iCurrentAddress = 0
    /\ pSymbol = <<>>
    /\ pUndeclaredSym = <<>>
    /\ bTerminate = FALSE
    /\ iLineErrors = [k \in 0..ErrSize |-> Uninit]
    /\ iErrorIndex = 0
    /\ iScan = 0
    /\ objectFile = NoObjectFile
    /\ iBurnCounter = 0
    /\ iBurnAddr = 0
    /\ iBurnStart = 0
    /\ pEquate = <<>>
    /\ mainReturn = NotReturned
    /\ trapLines = <<>>

\* The simulator after InstallRom, before any program is loaded.
CpuIdle ==
    Boot(Scenario(<<>>, 0, 0, 64256, FALSE, FALSE, FALSE, FALSE, 65520, 0))

Init ==
    /\ \E sc \in Scenarios : Boot(sc)
    /\ alu = AluIdle
    /\ codec = CodecIdle
    /\ AsmIdle

Next ==
    \/ FetchIncrPC
    \/ SimSTOP \/ SimRETTR \/ SimMOVSPA \/ SimMOVFLGA
    \/ SimBR \/ SimBRLE \/ SimBRLT \/ SimBREQ \/ SimBRNE \/ SimBRGE
    \/ SimBRGT \/ SimBRV \/ SimBRC \/ SimCALL
    \/ SimNOTr \/ SimNEGr \/ SimASLr \/ SimASRr \/ SimROLr \/ SimRORr
    \/ SimTRAP \/ SimCHARI \/ SimCHARO \/ SimRETn
    \/ SimADDSP \/ SimSUBSP \/ SimADDr \/ SimSUBr \/ SimANDr \/ SimORr
    \/ SimCPr \/ SimLDr \/ SimLDBYTEr \/ SimSTr \/ SimSTBYTEr
    \/ ExecuteCommand

Spec == Init /\ [][Next]_vars

(***************************************************************************)
(* The adder and the subtractor on their own, over pairs of words.         *)
(***************************************************************************)
ALUWords == EdgeWords \cup {4660, 32512, 33023, 43981, 65280}

InitALU ==
    /\ CpuIdle
    /\ codec = CodecIdle
    /\ AsmIdle
    /\ \E a \in ALUWords, b \in ALUWords :
         alu = [AluIdle EXCEPT !.Op1 = RegOf(a), !.Op2 = RegOf(b)]

NextALU == ApplyAdder \/ ApplySubtractor

SpecALU == InitALU /\ [][NextALU]_vars

(***************************************************************************)
(* The fetch of one instruction, for every instruction specifier: the      *)
(* specifier stands at address 0 and the bytes 1 and 2 follow it.          *)
(***************************************************************************)
FetchScenarios ==
    {Scenario(Instr(spec, 258), 4660, 0, 64256, FALSE, FALSE, FALSE, FALSE,
              65520, 0) : spec \in 0..255}

InitFetch ==
    /\ \E sc \in FetchScenarios : Boot(sc)
    /\ alu = AluIdle
    /\ codec = CodecIdle
    /\ AsmIdle

NextFetch == FetchIncrPC

SpecFetch == InitFetch /\ [][NextFetch]_vars

(***************************************************************************)
(* One statement through the assembler and the simulator's fetch, for      *)
(* every mnemonic: alone, with a decimal operand, and with a decimal       *)
(* operand and each addressing mode.                                       *)
(***************************************************************************)
CodecOperands == {258, -2}

CodecStatements ==
    {<<Tok("eT_IDENTIFIER", cMnemonTable[k].id)>> :
        k \in 1..Len(cMnemonTable)}
    \cup
    {<<Tok("eT_IDENTIFIER", cMnemonTable[k].id), Tok("eT_DECCONSTANT", v)>> :
        k \in 1..Len(cMnemonTable), v \in CodecOperands}
    \cup
    {<<Tok("eT_IDENTIFIER", cMnemonTable[k].id), Tok("eT_DECCONSTANT", v),
       Tok("eT_ADDRMODE", a)>> :
        k \in 1..Len(cMnemonTable), v \in CodecOperands, a \in AddrModes}

InitCodec ==
    /\ CpuIdle
    /\ alu = AluIdle
    /\ \E traps \in TrapRegistries :
         /\ sUnimpMnemon = traps
         /\ phase = "idle"
         /\ srcLines = <<>>
         /\ iCodeIndex = 0
         /\ pACode = <<>>
         /\ iCurrentAddress = 0
         /\ pSymbol = <<>>
         /\ pUndeclaredSym = <<>>
         /\ bTerminate = FALSE
         /\ iLineErrors = [k \in 0..ErrSize |-> Uninit]
         /\ iErrorIndex = 0
         /\ iScan = 0
         /\ objectFile = NoObjectFile
         /\ iBurnCounter = 0
         /\ iBurnAddr = 0
         /\ iBurnStart = 0
         /\ pEquate = <<>>
         /\ mainReturn = NotReturned
         /\ trapLines = <<>>
    /\ iBurnCounter = 0
    /\ iBurnAddr = 0
    /\ iBurnStart = 0
    /\ pEquate = <<>>
    /\ mainReturn = NotReturned
    /\ trapLines = <<>>
    /\ \E line \in CodecStatements :
         codec = [CodecIdle EXCEPT !.stage = "source", !.line = line]

NextCodec == AssembleStatement \/ LoadAndFetch

SpecCodec == InitCodec /\ [][NextCodec]_vars

(***************************************************************************)
(* A run of the assembler on a source file of at most MaxLines lines.      *)
(***************************************************************************)
InitAsm ==
    /\ CpuIdle
    /\ alu = AluIdle
    /\ codec = CodecIdle
    /\ sUnimpMnemon \in {StandardTraps, <<0, 0, 0, 0, 0, 254, 255, 22>>}
    /\ phase = "first pass"
    /\ srcLines = <<>>
    /\ iCodeIndex = 0
    /\ pACode = <<>>
    /\ iCurrentAddress = 0
    /\ pSymbol = <<>>
    /\ pUndeclaredSym = <<>>
    /\ bTerminate = FALSE
    /\ iLineErrors = [k \in 0..ErrSize |-> Uninit]
    /\ iErrorIndex = 0
    /\ iScan = 0
    /\ objectFile = NoObjectFile
    /\ iBurnCounter = 0
    /\ iBurnAddr = 0
    /\ iBurnStart = 0
    /\ pEquate = <<>>
    /\ mainReturn = NotReturned
    /\ trapLines = <<>>

NextAsm == FirstPass \/ EndFirstPass \/ ResolveSymbol \/ GenerateObjectFile

SpecAsm == InitAsm /\ [][NextAsm]_vars

(***************************************************************************)
(* A run of the assembler on a source file of dot commands of at most      *)
(* MaxDotLines lines.                                                      *)
(***************************************************************************)
InitDot ==
    /\ InitAsm
    /\ sUnimpMnemon = StandardTraps

NextDot == FirstPassDot \/ EndFirstPass \/ ResolveSymbol \/ GenerateObjectFile

SpecDot == InitDot /\ [][NextDot]_vars

(***************************************************************************)
(* A run of the assembler on a source file of statements with operands at  *)
(* the edges.                                                              *)
(***************************************************************************)
InitOperand ==
    /\ InitAsm
    /\ sUnimpMnemon = StandardTraps

NextOperand ==
    FirstPassOperand \/ EndFirstPass \/ ResolveSymbol \/ GenerateObjectFile

SpecOperand == InitOperand /\ [][NextOperand]_vars

(***************************************************************************)
(* A run of the assembler on the long source file, from the point where    *)
(* the first pass has read the file's PrefixLines lines .BLOCK 255.        *)
(***************************************************************************)
\* The k-th line of the prefix as the first pass reads it, at the address
\* the k - 1 lines before it leave.
ReadPrefix(k) ==
    vProcessSourceLine(BlockLine, k - 1, (k - 1) * MAX_BYTE, <<>>, <<>>,
                       FALSE, NoBurn)

InitLong ==
    /\ CpuIdle
    /\ alu = AluIdle
    /\ codec = CodecIdle
    /\ sUnimpMnemon = StandardTraps
    /\ phase = "first pass"
    /\ srcLines = [k \in 1..PrefixLines |-> BlockLine]
    /\ iCodeIndex = PrefixLines
    /\ pACode = [k \in 1..PrefixLines |->
                    DotComDec((k - 1) * MAX_BYTE, "BLOCK", MAX_BYTE)]
    /\ iCurrentAddress = PrefixLines * MAX_BYTE
    /\ pSymbol = <<>>
    /\ pUndeclaredSym = <<>>
    /\ bTerminate = FALSE
    /\ iLineErrors = [k \in 0..ErrSize |-> Uninit]
    /\ iErrorIndex = 0
    /\ iScan = 0
    /\ objectFile = NoObjectFile
    /\ iBurnCounter = 0
    /\ iBurnAddr = 0
    /\ iBurnStart = 0
    /\ pEquate = <<>>
    /\ mainReturn = NotReturned
    /\ trapLines = <<>>

NextLong == FirstPassLong \/ EndFirstPass \/ ResolveSymbol \/ GenerateObjectFile

SpecLong == InitLong /\ [][NextLong]_vars

(***************************************************************************)
(* Traced runs: the simulator at its menu with a program loaded.  The      *)
(* programs: an endless loop, a load and an addition before the loop, a    *)
(* trap before the loop, and a STOP.                                       *)
(***************************************************************************)
TraceScenarios ==
    {Scenario(prog, 0, 0, 64256, FALSE, FALSE, FALSE, FALSE, 65520, 0) :
        prog \in {<<4, 0, 0>>,
                  <<192, 0, 1, 112, 0, 1, 4, 0, 0>>,
                  <<36, 4, 0, 0>>,
                  <<0>>}}

InitTrace ==
    /\ \E sc \in TraceScenarios : Loaded(sc) /\ Halt = TRUE
    /\ alu = AluIdle
    /\ codec = CodecIdle
    /\ AsmIdle

NextTrace ==
    \/ TraceCommand
    \/ FetchIncrPC
    \/ Trace
    \/ SimSTOP \/ SimBR \/ SimLDr \/ SimADDr \/ SimTRAP \/ SimRETTR

SpecTrace == InitTrace /\ [][NextTrace]_vars

(***************************************************************************)
(* The dump command.  DumpCommand asks for a range until its start does    *)
(* not lie above its end and calls Dump, whose loop prints one row of      *)
(* sixteen cells a turn: the address, the cells in hex, the cells as       *)
(* characters.  A character is held as its code.                           *)
(***************************************************************************)
cHexTable == HexDigits

\* vDecToHexByte of pep8.cpp, for the cells of a byte.
DumpHexByte(iDec) ==
    <<cHexTable[(iDec \div 16) + 1], cHexTable[(iDec % 16) + 1]>>

RegToHex(r) == DumpHexByte(r.iHigh) \o DumpHexByte(r.iLow)

\* StartAddress.iLow = (StartAddress.iLow / 16) * 16
DumpNewLineAsIs(iLow) == iLow

DumpNewLine(iLow) == (iLow \div 16) * 16

\* The character the ASCII column shows for a cell.
DumpChar(iCell) == IF iCell >= 32 /\ iCell <= 126 THEN iCell ELSE 46

\* The test of Dump's while loop.
DumpLoopTest(d) ==
    /\ \/ d.StartAddress.iHigh < d.EndAddress.iHigh
       \/ /\ d.StartAddress.iHigh = d.EndAddress.iHigh
          /\ d.StartAddress.iLow <= d.EndAddress.iLow
    /\ ~(d.Carry /\ d.StartAddress.iHigh = 0)

\* The row one turn of the loop prints.
DumpRowOf(mem, d) ==
    [cHexWord |-> RegToHex(d.StartAddress),
     cHexByte |-> [i \in 1..16 |->
                     IF d.Address + i - 1 < MEMORY_SIZE
                     THEN DumpHexByte(Cell(mem, d.Address + i - 1))
                     ELSE <<"", "">>],
     ascii |-> [i \in 1..16 |->
                  IF d.Address + i - 1 < MEMORY_SIZE
                  THEN DumpChar(Cell(mem, d.Address + i - 1))
                  ELSE 46]]

\* The addresses the dump command is given: the first rows, the rows of
\* the cells that hold 127, 126, 32 and 31, and the last rows.
DumpAddresses == {0, 5, 16, 31, 56, 79, 193, 216, 65509, 65520, 65535}

DumpRanges ==
    {r \in DumpAddresses \X DumpAddresses : r[1] <= r[2] /\ r[2] - r[1] < 64}

\* DumpCommand with a range it accepts, and the head of Dump.
DumpCommand ==
    /\ Halt
    /\ cycle = "fetch"
    /\ dump.pc = "menu"
    /\ \E r \in DumpRanges :
          LET StartAddress == RegOf(r[1])
              EndAddress == IF r[2] = 0 THEN StartAddress ELSE RegOf(r[2])
              Start == Reg(StartAddress.iHigh, DumpNewLine(StartAddress.iLow))
          IN  dump' = [pc |-> "loop",
                       StartAddress |-> Start,
                       EndAddress |-> EndAddress,
                       Address |-> IF Start.iHigh < MEMORY_SIZE \div 256
                                   THEN Start.iHigh * 256 + Start.iLow
                                   ELSE MEMORY_SIZE,
                       Carry |-> FALSE,
                       output |-> <<>>,
                       asked |-> <<StartAddress, EndAddress>>]
    /\ UNCHANGED <<iMemory, iRomStartAddr, stray, sR_Accumulator,
                   sR_IndexRegister, sR_StackPointer, sR_ProgramCounter,
                   sIR_InstrRegister, bStatusN, bStatusZ, bStatusV, bStatusC,
                   Halt, cycle, R0, trace, trapBoundary, callBoundary,
                   runError, eTraceMode, bSingleStep, bScrollingTrace,
                   iLineCount, numTerminalLines, TraceAddr, traceAnswer>>
    /\ UNCHANGED nonCpuVars

\* One turn of the loop of Dump.
DumpRow ==
    /\ dump.pc = "loop"
    /\ DumpLoopTest(dump)
    /\ LET sum == Adder(dump.StartAddress, Reg(0, 16))
           next == dump.Address + 16
       IN  dump' = [dump EXCEPT
                       !.output = Append(@, DumpRowOf(iMemory, dump)),
                       !.Address = IF next < MEMORY_SIZE THEN next
                                   ELSE MEMORY_SIZE,
                       !.StartAddress = sum.Result,
                       !.Carry = sum.Carry]
    /\ UNCHANGED <<iMemory, iRomStartAddr, stray, sR_Accumulator,
                   sR_IndexRegister, sR_StackPointer, sR_ProgramCounter,
                   sIR_InstrRegister, bStatusN, bStatusZ, bStatusV, bStatusC,
                   Halt, cycle, R0, trace, trapBoundary, callBoundary,
                   runError, eTraceMode, bSingleStep, bScrollingTrace,
                   iLineCount, numTerminalLines, TraceAddr, traceAnswer>>
    /\ UNCHANGED nonCpuVars

\* The loop of Dump ends and the command returns to the menu.
DumpReturn ==
    /\ dump.pc = "loop"
    /\ ~DumpLoopTest(dump)
    /\ dump' = [dump EXCEPT !.pc = "menu"]
    /\ UNCHANGED <<iMemory, iRomStartAddr, stray, sR_Accumulator,
                   sR_IndexRegister, sR_StackPointer, sR_ProgramCounter,
                   sIR_InstrRegister, bStatusN, bStatusZ, bStatusV, bStatusC,
                   Halt, cycle, R0, trace, trapBoundary, callBoundary,
                   runError, eTraceMode, bSingleStep, bScrollingTrace,
                   iLineCount, numTerminalLines, TraceAddr, traceAnswer>>
    /\ UNCHANGED nonCpuVars

InitDump == InitTrace

NextDump == DumpCommand \/ DumpRow \/ DumpReturn

\* Dump runs to its end once it is called: nothing else runs meanwhile.
SpecDump ==
    /\ InitDump
    /\ [][NextDump]_vars
    /\ WF_vars(DumpRow)
    /\ WF_vars(DumpReturn)

(***************************************************************************)
(* The trap file.  main hands its eight lines to vGetTrapLine, which       *)
(* stores the mnemonic and the addressing modes of each.  A line is the    *)
(* sequence of its characters, closed by the newline vGetLine puts.        *)
(***************************************************************************)
IDENT_LENGTH == 8

UNIMPLEMENTED_INSTRUCTIONS == 8

isspace(ch) == ch \in {" ", "\t", "\n"}

toupper(ch) ==
    CASE ch = "i" -> "I"
      [] ch = "d" -> "D"
      [] ch = "n" -> "N"
      [] ch = "s" -> "S"
      [] ch = "f" -> "F"
      [] ch = "x" -> "X"
      [] ch = "o" -> "O"
      [] ch = "p" -> "P"
      [] OTHER -> ch

\* while (!isspace(ch)) vAdvanceInput(ch): the index of the character held.
RECURSIVE SkipWord(_, _)
SkipWord(cLine, i) ==
    IF isspace(cLine[i]) THEN i ELSE SkipWord(cLine, i + 1)

\* while (isspace(ch) && ch != '\n') vAdvanceInput(ch)
RECURSIVE SkipBlanks(_, _)
SkipBlanks(cLine, i) ==
    IF isspace(cLine[i]) /\ cLine[i] # "\n"
    THEN SkipBlanks(cLine, i + 1)
    ELSE i

\* One turn of vGetTrapLine's do loop.  st.i is the index of the character
\* held in ch, st.prev the modes whose bNoPrev flag is false by now.
TrapWord(cLine, st) ==
    LET ch == toupper(cLine[st.i])
        Add(a, i) == [i |-> i,
                      iAddrMode |-> st.iAddrMode + ModeBit(a),
                      prev |-> st.prev \cup {a}]
        At(i) == [st EXCEPT !.i = i]
        after ==
            IF ch = "I" /\ "i" \notin st.prev THEN Add("i", st.i + 1)
            ELSE IF ch = "D" /\ "d" \notin st.prev THEN Add("d", st.i + 1)
            ELSE IF ch = "N" /\ "n" \notin st.prev THEN Add("n", st.i + 1)
            ELSE IF ch = "X" /\ "x" \notin st.prev THEN Add("x", st.i + 1)
            ELSE IF ch = "S"
            THEN IF toupper(cLine[st.i + 1]) = "X"
                 THEN IF toupper(cLine[st.i + 2]) = "F"
                         /\ "sxf" \notin st.prev
                      THEN Add("sxf", st.i + 3)
                      ELSE IF "sx" \notin st.prev
                      THEN Add("sx", st.i + 2)
                      ELSE At(st.i + 2)
                 ELSE IF toupper(cLine[st.i + 1]) = "F"
                         /\ "sf" \notin st.prev
                 THEN Add("sf", st.i + 2)
                 ELSE IF "s" \notin st.prev
                 THEN Add("s", st.i + 1)
                 ELSE At(st.i + 1)
            ELSE st
    IN  [after EXCEPT !.i = SkipBlanks(cLine, SkipWord(cLine, after.i))]

\* do { ... } while (ch != '\n')
RECURSIVE TrapModes(_, _)
TrapModes(cLine, st) ==
    LET next == TrapWord(cLine, st)
    IN  IF cLine[next.i] # "\n" THEN TrapModes(cLine, next) ELSE next

Shorter(a, b) == IF a < b THEN a ELSE b

\* The registry entry vGetTrapLine(iLine) leaves, iLine counted from zero.
vGetTrapLine(iLine, cLine) ==
    LET word == SkipWord(cLine, 1)
        ch == SkipBlanks(cLine, word)
    IN  [cID |-> [k \in 1..Shorter(IDENT_LENGTH, word - 1) |->
                    toupper(cLine[k])],
         iAddrMode |->
            IF iLine >= UNARY_TRAPS /\ cLine[ch] # "\n"
            THEN TrapModes(cLine,
                           [i |-> ch, iAddrMode |-> 0, prev |-> {}]).iAddrMode
            ELSE 0]

\* The characters of an addressing-mode code as a trap file may write it.
CodeChars(code) ==
    CASE code = "i" -> <<"i">>
      [] code = "I" -> <<"I">>
      [] code = "d" -> <<"d">>
      [] code = "D" -> <<"D">>
      [] code = "n" -> <<"n">>
      [] code = "x" -> <<"x">>
      [] code = "s" -> <<"s">>
      [] code = "sf" -> <<"s", "f">>
      [] code = "SF" -> <<"S", "F">>
      [] code = "sx" -> <<"s", "x">>
      [] code = "sxf" -> <<"s", "x", "f">>
      [] code = "SXF" -> <<"S", "X", "F">>

RECURSIVE TrapTail(_, _)
TrapTail(codes, k) ==
    IF k > Len(codes) THEN <<"\n">>
    ELSE <<" ">> \o CodeChars(codes[k]) \o TrapTail(codes, k + 1)

TrapText(codes) == <<"N", "o", "p">> \o TrapTail(codes, 1)

\* The mode lists of the trap files read: the lines of the standard file,
\* the same codes in another order and in capitals, and codes written twice.
TrapCodes ==
    {<<>>, <<"i">>, <<"d", "n", "sf">>, <<"SF", "n", "D">>,
     <<"i", "d", "n", "s", "sf", "x", "sx", "sxf">>,
     <<"I", "d", "i">>, <<"x", "sx", "sx", "s", "s">>,
     <<"sf", "SF">>, <<"sxf", "SXF">>}

TrapFileLines(iLine) ==
    IF iLine < UNARY_TRAPS
    THEN {TrapText(<<>>), TrapText(<<"i", "d">>)}
    ELSE {TrapText(codes) : codes \in TrapCodes}

\* The loop of main over the trap file, one turn.
ReadTrapLine ==
    /\ phase = "trap"
    /\ Len(trapLines) < UNIMPLEMENTED_INSTRUCTIONS
    /\ \E cLine \in TrapFileLines(Len(trapLines)) :
          /\ sUnimpMnemon' =
                [sUnimpMnemon EXCEPT ![Len(trapLines) + 1] =
                    vGetTrapLine(Len(trapLines), cLine).iAddrMode]
          /\ trapLines' = Append(trapLines, cLine)
    /\ UNCHANGED <<cpuVars, alu, codec, phase, srcLines, iCodeIndex, pACode,
                   iCurrentAddress, pSymbol, pUndeclaredSym, bTerminate,
                   iLineErrors, iErrorIndex, iScan, objectFile, burnVars,
                   mainReturn>>

\* main after the trap file was opened: the registry is a zeroed global.
InitTrap ==
    /\ CpuIdle
    /\ alu = AluIdle
    /\ codec = CodecIdle
    /\ sUnimpMnemon = [k \in 1..UNIMPLEMENTED_INSTRUCTIONS |-> 0]
    /\ phase = "trap"
    /\ srcLines = <<>>
    /\ iCodeIndex = 0
    /\ pACode = <<>>
    /\ iCurrentAddress = 0
    /\ pSymbol = <<>>
    /\ pUndeclaredSym = <<>>
    /\ bTerminate = FALSE
    /\ iLineErrors = [k \in 0..ErrSize |-> Uninit]
    /\ iErrorIndex = 0
    /\ iScan = 0
    /\ objectFile = NoObjectFile
    /\ iBurnCounter = 0
    /\ iBurnAddr = 0
    /\ iBurnStart = 0
    /\ pEquate = <<>>
    /\ mainReturn = NotReturned
    /\ trapLines = <<>>

NextTrap == ReadTrapLine

SpecTrap == InitTrap /\ [][NextTrap]_vars

(***************************************************************************)
(* Vocabulary of the properties.  A register or a word is read as the      *)
(* unsigned integer high * 256 + low; memWord(a) is the word the memory    *)
(* read interface returns at address a.                                    *)
(***************************************************************************)
Val(r) == r.iHigh * 256 + r.iLow

IsWord(r) == r.iHigh \in 0..255 /\ r.iLow \in 0..255

Signed(w) == IF w >= 32768 THEN w - 65536 ELSE w

Mnemon == instr_SpecToMnemon(sIR_InstrRegister.iInstr_Spec)

Executing == cycle = "execute"

LastExecuted == IF trace = <<>> THEN "none" ELSE trace[Len(trace)]

memWord(a) == Val(MemRead(iMemory, RegOf(a)))

\* Every register half and every installed or written cell is a byte.
WordMachine ==
    /\ IsWord(sR_Accumulator)
    /\ IsWord(sR_IndexRegister)
    /\ IsWord(sR_StackPointer)
    /\ IsWord(OprndSpec)
    /\ \A i \in DOMAIN iMemory : iMemory[i] \in 0..255

OS == Val(OprndSpec)

BranchMnemonics ==
    {"eM_BR", "eM_BRLE", "eM_BRLT", "eM_BREQ", "eM_BRNE", "eM_BRGE",
     "eM_BRGT", "eM_BRV", "eM_BRC"}

\* The instructions that take a word operand through LoadReg with a
\* three-bit addressing mode.
WordOperandMnemonics ==
    {"eM_ADDSP", "eM_SUBSP", "eM_ADDr", "eM_SUBr", "eM_ANDr", "eM_ORr",
     "eM_CPr", "eM_LDr"}

StoreMnemonics == {"eM_STr", "eM_STBYTEr"}

FlagsUnchanged == UNCHANGED <<bStatusN, bStatusZ, bStatusV, bStatusC>>

(***************************************************************************)
(* C1.  After the operating-system ROM is installed, no step of the        *)
(* machine (CALL, trap, CHARI, STr, STBYTEr or any other instruction)      *)
(* changes the ROM boundary or a memory cell at an address at or above     *)
(* it: a write addressed there is dropped.                                 *)
(***************************************************************************)
C1_RomNeverChanges ==
    [][/\ iRomStartAddr' = iRomStartAddr
       /\ \A i \in iRomStartAddr..TOP_OF_MEMORY :
             Cell(iMemory', i) = Cell(iMemory, i)]_vars

\* A word store in direct mode addressed into the ROM has been executed,
\* with a register whose high byte differs from the cell it aimed at.
C1_Witness ==
    /\ LastExecuted = "eM_STr"
    /\ cycle = "fetch"
    /\ ~Halt
    /\ ModeThreeBits = "eA_DIRECT"
    /\ OS >= iRomStartAddr
    /\ OS <= TOP_OF_MEMORY
    /\ TheReg(RegFourthBit).iHigh # Cell(iMemory, OS)

(***************************************************************************)
(* C2.  When a trap instruction is executed and RETTR is the next          *)
(* instruction executed, and the ten bytes below the value of the          *)
(* system-SP vector lie in RAM, then after RETTR the registers A, X, PC,   *)
(* SP and the flags N, Z, V, C are what they were at the trap-issuing      *)
(* boundary (PC being the address after the trap instruction).             *)
(***************************************************************************)
SystemSPVector == Val(Reg(Cell(iMemory, SYSTEM_SP), Cell(iMemory, SYSTEM_SP + 1)))

FrameInRAM ==
    \A k \in 1..10 : (SystemSPVector - k) % MEMORY_SIZE < iRomStartAddr

TrapThenRETTR ==
    /\ Len(trace) >= 2
    /\ cycle = "fetch"
    /\ trace[Len(trace)] = "eM_RETTR"
    /\ trace[Len(trace) - 1] \in TrapMnemonics

C2_TrapRoundTrip ==
    (TrapThenRETTR /\ FrameInRAM) =>
        /\ sR_Accumulator = trapBoundary.A
        /\ sR_IndexRegister = trapBoundary.X
        /\ sR_ProgramCounter = trapBoundary.PC
        /\ sR_StackPointer = trapBoundary.SP
        /\ bStatusN = trapBoundary.N
        /\ bStatusZ = trapBoundary.Z
        /\ bStatusV = trapBoundary.V
        /\ bStatusC = trapBoundary.C

\* A nonunary trap issued at address 0 with distinct nonzero registers and
\* mixed flags has returned to address 3.
C2_Witness ==
    /\ trace = <<"eM_UNIMP5", "eM_RETTR">>
    /\ FrameInRAM
    /\ Val(sR_Accumulator) = 4660
    /\ Val(sR_IndexRegister) = 43981
    /\ Val(sR_StackPointer) = 64256
    /\ sR_ProgramCounter = Reg(0, 3)
    /\ bStatusN /\ ~bStatusZ /\ bStatusV /\ ~bStatusC

(***************************************************************************)
(* C6.  For 16-bit register value r and operand v, CPr leaves A and X      *)
(* unchanged, sets C to the borrow of r - v (r < v unsigned), V to the     *)
(* signed overflow of r - v, Z iff r = v, and N iff r < v as signed        *)
(* 16-bit integers.                                                        *)
(***************************************************************************)
C6_CPr ==
    [][(Executing /\ Mnemon = "eM_CPr" /\ IsWord(TheReg(RegFourthBit))
          /\ IsWord(R0'))
       => LET r == Val(TheReg(RegFourthBit))
              v == Val(R0')
          IN  /\ sR_Accumulator' = sR_Accumulator
              /\ sR_IndexRegister' = sR_IndexRegister
              /\ bStatusC' = (r < v)
              /\ bStatusV' = (Signed(r) - Signed(v) \notin -32768..32767)
              /\ bStatusZ' = (r = v)
              /\ bStatusN' = (Signed(r) < Signed(v))]_vars

\* CPA of 0x7FFF with 0x8000: the signed subtraction overflows, N is the
\* sign of the true difference.
C6_Witness ==
    /\ trace = <<"eM_CPr">>
    /\ RegFourthBit = "eR_R_IS_ACCUMULATOR"
    /\ Val(sR_Accumulator) = 32767
    /\ Val(R0) = 32768
    /\ bStatusV /\ bStatusC /\ ~bStatusN /\ ~bStatusZ

(***************************************************************************)
(* C7.  In the modes immediate, direct, indirect, stack-relative,          *)
(* stack-relative-deferred and indexed the word operand an instruction     *)
(* uses is OS, memWord(OS), memWord(memWord(OS)), memWord(SP+OS),          *)
(* memWord(memWord(SP+OS)) and memWord(X+OS), every sum taken modulo       *)
(* 65536; resolving the operand changes no flag: a load leaves V and C     *)
(* alone and sets N and Z from the operand, a store in these modes leaves  *)
(* all four flags alone.                                                   *)
(***************************************************************************)
SixModes ==
    {"eA_IMMEDIATE", "eA_DIRECT", "eA_INDIRECT", "eA_STACK_REL",
     "eA_STACK_REL_DEF", "eA_INDEXED"}

OperandSixModes(mode) ==
    LET X  == Val(sR_IndexRegister)
        SP == Val(sR_StackPointer)
    IN  CASE mode = "eA_IMMEDIATE" -> OS
          [] mode = "eA_DIRECT" -> memWord(OS)
          [] mode = "eA_INDIRECT" -> memWord(memWord(OS))
          [] mode = "eA_STACK_REL" -> memWord((SP + OS) % 65536)
          [] mode = "eA_STACK_REL_DEF" -> memWord(memWord((SP + OS) % 65536))
          [] mode = "eA_INDEXED" -> memWord((X + OS) % 65536)

C7_SixModes ==
    [][(Executing /\ ModeThreeBits \in SixModes /\ WordMachine)
       => LET operand == OperandSixModes(ModeThreeBits)
          IN  /\ Mnemon \in WordOperandMnemonics => R0' = RegOf(operand)
              /\ Mnemon = "eM_LDr" =>
                    /\ RegFourthBit = "eR_R_IS_ACCUMULATOR"
                          => sR_Accumulator' = RegOf(operand)
                    /\ RegFourthBit = "eR_R_IS_INDEX_REG"
                          => sR_IndexRegister' = RegOf(operand)
                    /\ bStatusN' = (operand >= 32768)
                    /\ bStatusZ' = (operand = 0)
                    /\ UNCHANGED <<bStatusV, bStatusC>>
              /\ Mnemon \in StoreMnemonics => FlagsUnchanged]_vars

\* LDA in stack-relative-deferred mode whose sum SP + OS wrapped.
C7_Witness ==
    /\ trace = <<"eM_LDr">>
    /\ ModeThreeBits = "eA_STACK_REL_DEF"
    /\ RegFourthBit = "eR_R_IS_ACCUMULATOR"
    /\ WordMachine
    /\ Val(sR_StackPointer) + OS >= 65536
    /\ sR_Accumulator = RegOf(OperandSixModes("eA_STACK_REL_DEF"))
    /\ R0 = sR_Accumulator

(***************************************************************************)
(* C8.  As stated: in stack-indexed mode the word operand is               *)
(* memWord(memWord(SP+OS)+X) and in stack-indexed-deferred mode it is      *)
(* memWord(memWord(memWord(SP+OS))+X), sums modulo 65536.                  *)
(***************************************************************************)
OperandStackIndexedAsStated(mode) ==
    LET X  == Val(sR_IndexRegister)
        SP == Val(sR_StackPointer)
    IN  CASE mode = "eA_STACK_IND" ->
                memWord((memWord((SP + OS) % 65536) + X) % 65536)
          [] mode = "eA_STACK_IND_DEF" ->
                memWord((memWord(memWord((SP + OS) % 65536)) + X) % 65536)

C8_AsStated ==
    [][(Executing /\ Mnemon \in WordOperandMnemonics
          /\ ModeThreeBits \in {"eA_STACK_IND", "eA_STACK_IND_DEF"}
          /\ WordMachine)
       => R0' = RegOf(OperandStackIndexedAsStated(ModeThreeBits))]_vars

(***************************************************************************)
(* C8, amended.  In stack-indexed mode the word operand is                 *)
(* memWord(SP+OS+X) and in stack-indexed-deferred mode it is               *)
(* memWord(memWord(SP+OS)+X), sums modulo 65536; resolving the operand     *)
(* changes no flag (a load leaves V and C alone, a store leaves all four   *)
(* alone).                                                                 *)
(***************************************************************************)
OperandStackIndexed(mode) ==
    LET X  == Val(sR_IndexRegister)
        SP == Val(sR_StackPointer)
    IN  CASE mode = "eA_STACK_IND" -> memWord((SP + OS + X) % 65536)
          [] mode = "eA_STACK_IND_DEF" ->
                memWord((memWord((SP + OS) % 65536) + X) % 65536)

C8_StackIndexed ==
    [][(Executing /\ ModeThreeBits \in {"eA_STACK_IND", "eA_STACK_IND_DEF"}
          /\ WordMachine)
       => LET operand == OperandStackIndexed(ModeThreeBits)
          IN  /\ Mnemon \in WordOperandMnemonics => R0' = RegOf(operand)
              /\ Mnemon = "eM_LDr" =>
                    /\ RegFourthBit = "eR_R_IS_ACCUMULATOR"
                          => sR_Accumulator' = RegOf(operand)
                    /\ RegFourthBit = "eR_R_IS_INDEX_REG"
                          => sR_IndexRegister' = RegOf(operand)
                    /\ UNCHANGED <<bStatusV, bStatusC>>
              /\ Mnemon \in StoreMnemonics => FlagsUnchanged]_vars

\* LDA in stack-indexed-deferred mode with a nonzero index: the word
\* loaded is the amended one and differs from the one stated.
C8_Witness ==
    /\ trace = <<"eM_LDr">>
    /\ ModeThreeBits = "eA_STACK_IND_DEF"
    /\ RegFourthBit = "eR_R_IS_ACCUMULATOR"
    /\ WordMachine
    /\ Val(sR_IndexRegister) # 0
    /\ sR_Accumulator = RegOf(OperandStackIndexed("eA_STACK_IND_DEF"))
    /\ sR_Accumulator # RegOf(OperandStackIndexedAsStated("eA_STACK_IND_DEF"))

(***************************************************************************)
(* C9.  A branch is taken exactly when its condition holds: BR always,     *)
(* BRLE iff N or Z, BRLT iff N, BREQ iff Z, BRNE iff not Z, BRGE iff not   *)
(* N, BRGT iff neither N nor Z, BRV iff V, BRC iff C.  A branch not taken  *)
(* leaves PC at the address of the next instruction, a branch taken sets   *)
(* PC to the operand the addressing mode resolves, and no branch changes   *)
(* A, X, SP, the flags or memory.                                          *)
(***************************************************************************)
BranchCondition(mn) ==
    CASE mn = "eM_BR" -> TRUE
      [] mn = "eM_BRLE" -> bStatusN \/ bStatusZ
      [] mn = "eM_BRLT" -> bStatusN
      [] mn = "eM_BREQ" -> bStatusZ
      [] mn = "eM_BRNE" -> ~bStatusZ
      [] mn = "eM_BRGE" -> ~bStatusN
      [] mn = "eM_BRGT" -> ~bStatusN /\ ~bStatusZ
      [] mn = "eM_BRV" -> bStatusV
      [] mn = "eM_BRC" -> bStatusC

C9_Branches ==
    [][(Executing /\ Mnemon \in BranchMnemonics)
       => /\ ~BranchCondition(Mnemon) => sR_ProgramCounter' = sR_ProgramCounter
          /\ BranchCondition(Mnemon) =>
                sR_ProgramCounter' = LoadRegCur(ModeOneBit)
          /\ UNCHANGED <<sR_Accumulator, sR_IndexRegister, sR_StackPointer,
                         iMemory>>
          /\ FlagsUnchanged]_vars

\* BRGT met Z set and N clear: the branch to address 16 was not taken and
\* PC is the address after the three-byte instruction at 0.
C9_Witness ==
    /\ trace = <<"eM_BRGT">>
    /\ bStatusZ /\ ~bStatusN
    /\ ModeOneBit = "eA_IMMEDIATE"
    /\ OS = 16
    /\ sR_ProgramCounter = Reg(0, 3)

(***************************************************************************)
(* C10.  As stated: a taken branch sets PC to OS in immediate mode and to  *)
(* X+OS (modulo 65536) in indexed mode.                                    *)
(***************************************************************************)
C10_AsStated ==
    [][(Executing /\ Mnemon \in BranchMnemonics /\ BranchCondition(Mnemon)
          /\ WordMachine)
       => sR_ProgramCounter' =
             RegOf(IF ModeOneBit = "eA_IMMEDIATE" THEN OS
                   ELSE (Val(sR_IndexRegister) + OS) % 65536)]_vars

(***************************************************************************)
(* C10, amended.  A taken branch sets PC to OS in immediate mode and to    *)
(* memWord(X+OS), the word stored at address X+OS (modulo 65536), in       *)
(* indexed mode.                                                           *)
(***************************************************************************)
C10_TakenBranch ==
    [][(Executing /\ Mnemon \in BranchMnemonics /\ BranchCondition(Mnemon)
          /\ WordMachine)
       => sR_ProgramCounter' =
             RegOf(IF ModeOneBit = "eA_IMMEDIATE" THEN OS
                   ELSE memWord((Val(sR_IndexRegister) + OS) % 65536))]_vars

\* BR in indexed mode with X = 2 and OS = 16: PC is the word stored at 18,
\* not 18.
C10_Witness ==
    /\ trace = <<"eM_BR">>
    /\ ModeOneBit = "eA_INDEXED"
    /\ WordMachine
    /\ Val(sR_IndexRegister) = 2
    /\ OS = 16
    /\ sR_ProgramCounter = RegOf(memWord(18))
    /\ sR_ProgramCounter # RegOf(18)


(***************************************************************************)
(* C3.  For every mnemonic and every addressing mode the assembler         *)
(* accepts for it, the instruction specifier the assembler emits is the    *)
(* base opcode, plus 1 for x on a branch or CALL, plus the mode number 0   *)
(* to 7 otherwise, and the simulator decodes it to the same mnemonic       *)
(* family, the same register, the same addressing mode, the same n for     *)
(* RETn and the same length: 1 byte for a unary instruction, 3 bytes for a *)
(* nonunary one.                                                           *)
(***************************************************************************)
ModeNumber(a) ==
    CASE a = "" \/ a = "i" -> 0
      [] a = "d" -> 1
      [] a = "n" -> 2
      [] a = "s" -> 3
      [] a = "sf" -> 4
      [] a = "x" -> 5
      [] a = "sx" -> 6
      [] a = "sxf" -> 7

WrittenRegister(m) ==
    CASE m.reg = "A" -> "eR_R_IS_ACCUMULATOR"
      [] m.reg = "X" -> "eR_R_IS_INDEX_REG"
      [] OTHER -> "none"

\* C3: every accepted statement is fetched and decoded as it was written.
C3_AsStated ==
    codec.stage = "fetched" =>
        LET m == cMnemonTable[codec.code.mn]
            a == codec.code.cThirdArg
            bUnaryStatement == codec.code.kind = "UnaryInstruction"
            d == Decode(codec.IR.iInstr_Spec)
        IN  /\ iHexByteToDecInt(codec.objCode[1]) =
                  m.iOpCode + (IF bUnaryStatement THEN 0
                               ELSE IF m.op = "BranchOp"
                               THEN (IF a = "x" THEN 1 ELSE 0)
                               ELSE ModeNumber(a))
            /\ d.mnemon = m.mnemon
            /\ d.reg = WrittenRegister(m)
            /\ d.mode = IF bUnaryStatement THEN "none"
                        ELSE ProcessAddressingMode(ModeNumber(a))
            /\ d.n = m.n
            /\ Len(codec.objCode) = (IF bUnaryStatement THEN 1 ELSE 3)
            /\ d.unary <=> bUnaryStatement
            /\ Val(codec.PC) = Len(codec.objCode)

(***************************************************************************)
(* C4.  The assembler writes the object file if and only if the error list *)
(* is empty after the first pass and symbol resolution and .END was        *)
(* reached; if any line carries an error or .END is missing, no object     *)
(* file is written.                                                        *)
(***************************************************************************)
IsEndLine(line) ==
    \E k \in 1..Len(line) :
        line[k].type = "eT_DOTCOMMAND" /\ line[k].val = "END"

EndInSource == \E k \in 1..Len(srcLines) : IsEndLine(srcLines[k])

AnyLineInError == \E k \in 1..Len(pACode) : bIsError(pACode[k])

\* C4: the step that ends main writes the object file exactly when no error
\* was counted and the source held .END, and never when a line is in error.
C4_ObjectFile ==
    [][(phase = "resolve" /\ phase' = "done") =>
          /\ ~objectFile.written
          /\ objectFile'.written <=> (iErrorIndex = 0 /\ EndInSource)
          /\ (AnyLineInError \/ ~EndInSource) => ~objectFile'.written]_vars

C4_Witness ==
    /\ phase = "done"
    /\ srcLines = <<<<Tok("eT_IDENTIFIER", "BR"), Tok("eT_IDENTIFIER", "alpha")>>,
                    <<Tok("eT_SYMBOL", "alpha"), Tok("eT_IDENTIFIER", "STOP")>>,
                    <<Tok("eT_DOTCOMMAND", "END")>>>>
    /\ objectFile.written
    /\ objectFile.bytes = <<<<"0", "4">>, <<"0", "0">>, <<"0", "3">>,
                            <<"0", "0">>, <<"z", "z">>>>

(***************************************************************************)
(* C5.  For all 16-bit a and b the adder returns (a + b) mod 65536 with C  *)
(* true iff a + b >= 65536 and V true iff a and b have the same sign and   *)
(* the result has the other sign; the subtractor returns (a - b) mod 65536 *)
(* with C true iff a < b unsigned and V true iff a and b have different    *)
(* signs and the sign of the result differs from the sign of a.            *)
(***************************************************************************)
Negative(w) == w >= 32768

\* C5: the adder and the subtractor, result and both flags.
C5_AdderSubtractor ==
    LET a == Val(alu.Op1)
        b == Val(alu.Op2)
        r == Val(alu.Result)
    IN  /\ alu.op = "Adder" =>
              /\ r = (a + b) % 65536
              /\ alu.Carry <=> (a + b >= 65536)
              /\ alu.Ovflw <=> (Negative(a) = Negative(b)
                                /\ Negative(r) # Negative(a))
        /\ alu.op = "Subtractor" =>
              /\ r = (a - b) % 65536
              /\ alu.Carry <=> (a < b)
              /\ alu.Ovflw <=> (Negative(a) # Negative(b)
                                /\ Negative(r) # Negative(a))

C5_Witness ==
    /\ alu.op = "Adder"
    /\ Val(alu.Op1) = 32769
    /\ Val(alu.Op2) = 65535
    /\ Val(alu.Result) = 32768
    /\ alu.Carry
    /\ ~alu.Ovflw

(***************************************************************************)
(* C11.  CALL decrements SP by 2, stores the address of the instruction    *)
(* following the CALL as a word at the new SP and jumps to the target      *)
(* (the operand: OS in immediate mode, the word at X+OS in indexed mode);  *)
(* RETn sets SP := SP+n, then PC := memWord(SP), then SP := SP+2.  Hence a *)
(* CALL whose pushed word lies in RAM, followed at once by RET0, resumes   *)
(* at the instruction after the CALL with SP as it was before the CALL.    *)
(***************************************************************************)
WordInRAM(a) == a + 1 < iRomStartAddr

\* memWord in the memory mem.
memWordIn(mem, a) == Val(MemRead(mem, RegOf(a)))

\* C11: the step of CALL, the step of RETn, and RET0 right after a CALL.
C11_CallReturn ==
    [][/\ (Executing /\ Mnemon = "eM_CALL" /\ WordMachine) =>
             LET sp == (Val(sR_StackPointer) - 2) % 65536
             IN  /\ sR_StackPointer' = RegOf(sp)
                 /\ WordInRAM(sp) =>
                       memWordIn(iMemory', sp) = Val(sR_ProgramCounter)
                 /\ sR_ProgramCounter' =
                       RegOf(IF ModeOneBit = "eA_IMMEDIATE" THEN OS
                             ELSE memWordIn(iMemory',
                                            (Val(sR_IndexRegister) + OS)
                                            % 65536))
       /\ (Executing /\ Mnemon = "eM_RETn" /\ WordMachine) =>
             LET n  == sIR_InstrRegister.iInstr_Spec % 8
                 sp == (Val(sR_StackPointer) + n) % 65536
             IN  /\ sR_ProgramCounter' = RegOf(memWord(sp))
                 /\ sR_StackPointer' = RegOf((sp + 2) % 65536)
       /\ (Executing /\ Mnemon = "eM_RETn" /\ WordMachine
             /\ sIR_InstrRegister.iInstr_Spec = 88
             /\ LastExecuted = "eM_CALL"
             /\ WordInRAM((Val(callBoundary.SP) - 2) % 65536)) =>
             /\ sR_ProgramCounter' = callBoundary.PC
             /\ sR_StackPointer' = callBoundary.SP]_vars

\* CALL at address 0 with SP = 64256, then RET0: execution resumes at 3.
C11_Witness ==
    /\ trace = <<"eM_CALL", "eM_RETn">>
    /\ sIR_InstrRegister.iInstr_Spec = 88
    /\ callBoundary = [SP |-> RegOf(64256), PC |-> RegOf(3)]
    /\ sR_ProgramCounter = RegOf(3)
    /\ sR_StackPointer = RegOf(64256)
    /\ memWord(64254) = 3

(***************************************************************************)
(* C12.  As stated: on a trap, after SP is loaded from the system-SP       *)
(* vector T, the CPU pushes old SP, PC, X, A (two bytes each), then the    *)
(* flag byte N*8 + Z*4 + V*2 + C, and last the instruction specifier, so   *)
(* that the instruction specifier occupies the lowest address of the       *)
(* frame, where SP points when the trap dispatcher starts.                 *)
(***************************************************************************)
AfterTrap == cycle = "fetch" /\ LastExecuted \in TrapMnemonics

FrameByte(k) == Cell(iMemory, (SystemSPVector - k) % MEMORY_SIZE)

FrameWord(k) == Reg(FrameByte(k), FrameByte(k - 1))

FlagByte(b) ==
    BoolInt(b.N) * 8 + BoolInt(b.Z) * 4 + BoolInt(b.V) * 2 + BoolInt(b.C)

C12_AsStated ==
    (AfterTrap /\ FrameInRAM) =>
        /\ Val(sR_StackPointer) = (SystemSPVector - 10) % MEMORY_SIZE
        /\ FrameWord(2) = trapBoundary.SP
        /\ FrameWord(4) = trapBoundary.PC
        /\ FrameWord(6) = trapBoundary.X
        /\ FrameWord(8) = trapBoundary.A
        /\ FrameByte(9) = FlagByte(trapBoundary)
        /\ FrameByte(10) = sIR_InstrRegister.iInstr_Spec

(***************************************************************************)
(* C12, amended.  On a trap, after SP is loaded from the system-SP vector  *)
(* T, the CPU pushes first the instruction specifier (one byte, at T-1),   *)
(* then old SP, PC, X, A (two bytes each, at T-3, T-5, T-7, T-9), and last *)
(* the flag byte N*8 + Z*4 + V*2 + C, so that the flag byte is the final   *)
(* push and occupies the lowest address of the frame (T-10), where SP      *)
(* points when the trap dispatcher starts at the interrupt-PC vector.      *)
(***************************************************************************)
C12_TrapFrame ==
    (AfterTrap /\ FrameInRAM) =>
        /\ Val(sR_StackPointer) = (SystemSPVector - 10) % MEMORY_SIZE
        /\ FrameByte(1) = sIR_InstrRegister.iInstr_Spec
        /\ FrameWord(3) = trapBoundary.SP
        /\ FrameWord(5) = trapBoundary.PC
        /\ FrameWord(7) = trapBoundary.X
        /\ FrameWord(9) = trapBoundary.A
        /\ FrameByte(10) = FlagByte(trapBoundary)
        /\ sR_ProgramCounter = Reg(Cell(iMemory, INTR_PC),
                                   Cell(iMemory, INTR_PC + 1))

\* DECI issued with N and V set: the frame lies at 65510..65519, the
\* specifier on top and the flag byte 10 at the bottom.
C12_Witness ==
    /\ trace = <<"eM_UNIMP5">>
    /\ cycle = "fetch"
    /\ SystemSPVector = 65520
    /\ FrameInRAM
    /\ sR_StackPointer = RegOf(65510)
    /\ Cell(iMemory, 65519) = 48
    /\ Cell(iMemory, 65510) = 10
    /\ trapBoundary.A = RegOf(4660)
    /\ Reg(Cell(iMemory, 65511), Cell(iMemory, 65512)) = RegOf(4660)

(***************************************************************************)
(* C13.  For every 16-bit register value r, NEGr replaces r by its two's-  *)
(* complement negation (65536 - r) mod 65536 and sets N and Z from that    *)
(* 16-bit result.                                                          *)
(***************************************************************************)
RegisterLastBit == IF RegLastBit = "eR_R_IS_ACCUMULATOR" THEN sR_Accumulator
                   ELSE sR_IndexRegister

\* C13: the step of NEGr on a 16-bit register value.
C13_AsStated ==
    [][(Executing /\ Mnemon = "eM_NEGr" /\ IsWord(RegisterLastBit))
       => LET negation == (65536 - Val(RegisterLastBit)) % 65536
          IN  /\ Val(RegisterLastBit') = negation
              /\ bStatusN' <=> negation >= 32768
              /\ bStatusZ' <=> negation = 0]_vars

(***************************************************************************)
(* C14.  ROLr rotates the register left through the carry (new bit 0 is    *)
(* the old C, new C is the old bit 15); RORr rotates it right through the  *)
(* carry (new bit 15 is the old C, new C is the old bit 0).                *)
(***************************************************************************)
Bit(w, k) == (w \div (2 ^ k)) % 2

\* C14: the steps of ROLr and RORr on a 16-bit register value.
C14_AsStated ==
    [][/\ (Executing /\ Mnemon = "eM_ROLr" /\ IsWord(RegisterLastBit))
          => LET r == Val(RegisterLastBit)
             IN  /\ Val(RegisterLastBit') = ((2 * r) % 65536) + BoolInt(bStatusC)
                 /\ bStatusC' <=> Bit(r, 15) = 1
       /\ (Executing /\ Mnemon = "eM_RORr" /\ IsWord(RegisterLastBit))
          => LET r == Val(RegisterLastBit)
             IN  /\ Val(RegisterLastBit') = (r \div 2) + 32768 * BoolInt(bStatusC)
                 /\ bStatusC' <=> Bit(r, 0) = 1]_vars

(***************************************************************************)
(* C15.  ASLr replaces r by 2r mod 65536, sets C to the old bit 15, sets V *)
(* exactly when the old bits 15 and 14 differ, and sets N and Z from the   *)
(* result.  ASLA on 0x4000 leaves A = 0x8000, N and V set, Z and C clear.  *)
(***************************************************************************)
\* C15: the step of ASLr on a 16-bit register value.
C15_ShiftLeft ==
    [][(Executing /\ Mnemon = "eM_ASLr" /\ IsWord(RegisterLastBit))
       => LET r == Val(RegisterLastBit)
              shifted == (2 * r) % 65536
          IN  /\ RegisterLastBit' = RegOf(shifted)
              /\ bStatusC' <=> Bit(r, 15) = 1
              /\ bStatusV' <=> Bit(r, 15) # Bit(r, 14)
              /\ bStatusN' <=> shifted >= 32768
              /\ bStatusZ' <=> shifted = 0
              /\ (r = 16384 /\ RegLastBit = "eR_R_IS_ACCUMULATOR")
                 => /\ sR_Accumulator' = RegOf(32768)
                    /\ bStatusN' /\ ~bStatusZ' /\ bStatusV' /\ ~bStatusC']_vars

C15_Witness ==
    /\ trace = <<"eM_ASLr">>
    /\ sIR_InstrRegister.iInstr_Spec = 28
    /\ sR_Accumulator = RegOf(32768)
    /\ sR_IndexRegister = RegOf(16384)
    /\ bStatusN /\ ~bStatusZ /\ bStatusV /\ ~bStatusC

(***************************************************************************)
(* C16.  For all a, b in 0..65535: adding a to the two's complement of b   *)
(* with the adder and subtracting b from a with the subtractor give the    *)
(* same low 16 bits and the same flags C and V.                            *)
(***************************************************************************)
TwosComplement(b) == (65536 - b) % 65536

AddOfComplement == Adder(alu.Op1, RegOf(TwosComplement(Val(alu.Op2))))

Subtracted == alu.op = "Subtractor"

\* C16 as stated: the result and both flags agree.
C16_AsStated ==
    Subtracted => /\ alu.Result = AddOfComplement.Result
                  /\ alu.Carry = AddOfComplement.Carry
                  /\ alu.Ovflw = AddOfComplement.Ovflw

\* C16: the results agree; the subtractor's C is the borrow, the complement
\* of the adder's carry unless b = 0, where both are clear; the two V differ
\* exactly when b = 0x8000, whose two's complement is 0x8000 again.
C16_AdderSubtractor ==
    Subtracted =>
        LET a == Val(alu.Op1)
            b == Val(alu.Op2)
        IN  /\ alu.Result = AddOfComplement.Result
            /\ alu.Carry <=> a < b
            /\ AddOfComplement.Carry <=> (b # 0 /\ a >= b)
            /\ (alu.Ovflw = AddOfComplement.Ovflw) <=> b # 32768

C16_Witness ==
    /\ Subtracted
    /\ alu.Op1 = RegOf(1) /\ alu.Op2 = RegOf(32768)
    /\ alu.Result = RegOf(32769)
    /\ alu.Carry /\ alu.Ovflw
    /\ ~AddOfComplement.Carry /\ ~AddOfComplement.Ovflw

(***************************************************************************)
(* C17.  CPr executed with the register equal to 0x8000 and the operand    *)
(* equal to 0x0001 leaves N = false, Z = false, V = true, C = false.       *)
(***************************************************************************)
Comparing8000With1 ==
    /\ Executing /\ Mnemon = "eM_CPr"
    /\ TheReg(RegFourthBit) = RegOf(32768)
    /\ R0' = RegOf(1)

\* C17 as stated: N is clear after the comparison.
C17_AsStated ==
    [][Comparing8000With1
       => (~bStatusN' /\ ~bStatusZ' /\ bStatusV' /\ ~bStatusC')]_vars

\* C17: the difference -32768 - 1 is negative, outside the 16-bit range:
\* the comparison leaves N = true, Z = false, V = true, C = false.
C17_CompareOverflow ==
    [][Comparing8000With1
       => (bStatusN' /\ ~bStatusZ' /\ bStatusV' /\ ~bStatusC')]_vars

C17_Witness ==
    /\ trace = <<"eM_CPr">>
    /\ sIR_InstrRegister = [iInstr_Spec |-> 176, sR_OprndSpec |-> RegOf(1)]
    /\ sR_Accumulator = RegOf(32768)
    /\ R0 = RegOf(1)
    /\ bStatusN /\ ~bStatusZ /\ bStatusV /\ ~bStatusC

(***************************************************************************)
(* C18.  For every instruction specifier s in 0..255 the decoder returns   *)
(* exactly one mnemonic, and the fetch classifies the instruction as unary *)
(* (one byte, no operand specifier fetched) if and only if s belongs to a  *)
(* fixed set of exactly 36 specifier values.                               *)
(***************************************************************************)
MnemonicOpcodes ==
    {"eM_STOP", "eM_RETTR", "eM_MOVSPA", "eM_MOVFLGA", "eM_BR", "eM_BRLE",
     "eM_BRLT", "eM_BREQ", "eM_BRNE", "eM_BRGE", "eM_BRGT", "eM_BRV",
     "eM_BRC", "eM_CALL", "eM_NOTr", "eM_NEGr", "eM_ASLr", "eM_ASRr",
     "eM_ROLr", "eM_RORr", "eM_UNIMP0", "eM_UNIMP1", "eM_UNIMP2",
     "eM_UNIMP3", "eM_UNIMP4", "eM_UNIMP5", "eM_UNIMP6", "eM_UNIMP7",
     "eM_CHARI", "eM_CHARO", "eM_RETn", "eM_ADDSP", "eM_SUBSP", "eM_ADDr",
     "eM_SUBr", "eM_ANDr", "eM_ORr", "eM_CPr", "eM_LDr", "eM_LDBYTEr",
     "eM_STr", "eM_STBYTEr"}

\* The specifiers the fetch treats as one-byte instructions.
UnarySet ==
    {s \in 0..255 :
        bSearchIntArray(iUnaryOpcodes, UNARY_OPCODES, instr_SpecToMnemon(s))}

\* What the fetch at address 0 shows of its classification.
FetchedOneByte ==
    /\ sR_ProgramCounter = Reg(0, 1)
    /\ OprndSpec = Reg(0, 0)

FetchedThreeBytes ==
    /\ sR_ProgramCounter = Reg(0, 3)
    /\ OprndSpec = Reg(1, 2)

\* C18 as stated: the unary specifiers are 36.
C18_AsStated ==
    Executing =>
        /\ Cardinality({m \in MnemonicOpcodes : m = Mnemon}) = 1
        /\ FetchedOneByte <=> sIR_InstrRegister.iInstr_Spec \in UnarySet
        /\ Cardinality(UnarySet) = 36

\* C18: one mnemonic for every specifier; the fetch takes one byte exactly
\* for the 28 specifiers 0..3, 24..39 and 88..95, and three bytes otherwise.
C18_Classification ==
    Executing =>
        LET s == sIR_InstrRegister.iInstr_Spec
        IN  /\ Cardinality({m \in MnemonicOpcodes : m = Mnemon}) = 1
            /\ FetchedOneByte <=> s \in (0..3) \cup (24..39) \cup (88..95)
            /\ FetchedThreeBytes <=> ~FetchedOneByte
            /\ UnarySet = (0..3) \cup (24..39) \cup (88..95)
            /\ Cardinality(UnarySet) = 28

C18_Witness ==
    /\ Executing
    /\ sIR_InstrRegister.iInstr_Spec = 95
    /\ Mnemon = "eM_RETn"
    /\ FetchedOneByte

(***************************************************************************)
(* C19.  For a byte store and for a word store alike: a store addressed    *)
(* exactly at the ROM boundary changes no memory, and a store addressed at *)
(* boundary - 1 succeeds: afterwards memory holds the complete stored      *)
(* value (for a word store, both of its bytes) starting at boundary - 1.   *)
(***************************************************************************)
Storing(mn) ==
    /\ Executing /\ Mnemon = mn /\ WordMachine
    /\ ModeThreeBits # "eA_IMMEDIATE"
    /\ IsWord(AddrProcessorCur(ModeThreeBits))

StoreAddress == Val(AddrProcessorCur(ModeThreeBits))

StoredReg == TheReg(RegFourthBit)

\* C19 as stated: at boundary - 1 the word store leaves both bytes.
C19_AsStated ==
    [][/\ (Storing("eM_STBYTEr") /\ StoreAddress = iRomStartAddr)
          => iMemory' = iMemory
       /\ (Storing("eM_STr") /\ StoreAddress = iRomStartAddr)
          => iMemory' = iMemory
       /\ (Storing("eM_STBYTEr") /\ StoreAddress = iRomStartAddr - 1)
          => Cell(iMemory', iRomStartAddr - 1) = StoredReg.iLow
       /\ (Storing("eM_STr") /\ StoreAddress = iRomStartAddr - 1)
          => /\ Cell(iMemory', iRomStartAddr - 1) = StoredReg.iHigh
             /\ Cell(iMemory', iRomStartAddr) = StoredReg.iLow]_vars

\* C19: a store at the boundary changes no memory; a byte store at
\* boundary - 1 stores its byte; a word store at boundary - 1 stores its
\* high byte there and drops its low byte, whose cell is the first of the
\* ROM; the highest address where a word store stores both bytes is
\* boundary - 2.
C19_BoundaryStore ==
    [][/\ (Storing("eM_STBYTEr") /\ StoreAddress = iRomStartAddr)
          => iMemory' = iMemory
       /\ (Storing("eM_STr") /\ StoreAddress = iRomStartAddr)
          => iMemory' = iMemory
       /\ (Storing("eM_STBYTEr") /\ StoreAddress = iRomStartAddr - 1)
          => /\ Cell(iMemory', iRomStartAddr - 1) = StoredReg.iLow
             /\ Cell(iMemory', iRomStartAddr) = Cell(iMemory, iRomStartAddr)
       /\ (Storing("eM_STr") /\ StoreAddress = iRomStartAddr - 1)
          => /\ Cell(iMemory', iRomStartAddr - 1) = StoredReg.iHigh
             /\ Cell(iMemory', iRomStartAddr) = Cell(iMemory, iRomStartAddr)
       /\ (Storing("eM_STr") /\ StoreAddress = iRomStartAddr - 2)
          => /\ Cell(iMemory', iRomStartAddr - 2) = StoredReg.iHigh
             /\ Cell(iMemory', iRomStartAddr - 1) = StoredReg.iLow]_vars

\* STA in direct mode at boundary - 1 has been executed: the high byte is
\* in the last RAM cell, the first ROM cell is not the low byte.
C19_Witness ==
    /\ trace = <<"eM_STr">>
    /\ ModeThreeBits = "eA_DIRECT"
    /\ OS = iRomStartAddr - 1
    /\ StoredReg = RegOf(42330)
    /\ Cell(iMemory, iRomStartAddr - 1) = 165
    /\ Cell(iMemory, iRomStartAddr) = 1

(***************************************************************************)
(* C20.  When the two-byte operand specifier of a nonunary instruction     *)
(* straddles the top of memory (instruction specifier at 0xFFFE, operand   *)
(* specifier starting at 0xFFFF), the fetch reads the high byte from       *)
(* 0xFFFF and the low byte from 0x0000, and PC continues modulo 65536 (to  *)
(* 0x0001).                                                                *)
(***************************************************************************)
FetchingAcrossTop ==
    /\ cycle = "fetch" /\ cycle' = "execute"
    /\ sR_ProgramCounter = RegOf(65534)
    /\ sIR_InstrRegister'.iInstr_Spec \notin UnarySet

\* C20 as stated: the low byte of the operand specifier is the cell 0.
C20_AsStated ==
    [][FetchingAcrossTop
       => /\ sIR_InstrRegister'.iInstr_Spec = Cell(iMemory, 65534)
          /\ sIR_InstrRegister'.sR_OprndSpec =
                Reg(Cell(iMemory, 65535), Cell(iMemory, 0))
          /\ sR_ProgramCounter' = RegOf(1)]_vars

(***************************************************************************)
(* C21.  For every starting PC, fetching a unary instruction advances PC   *)
(* by exactly 1 and fetching a nonunary instruction advances PC by exactly *)
(* 3, modulo 65536; and every SP change made by CALL, RETn, ADDSP, SUBSP,  *)
(* a trap or RETTR is computed modulo 65536.                               *)
(***************************************************************************)
Fetching == cycle = "fetch" /\ cycle' = "execute"

SPWord == Val(sR_StackPointer)

\* C21: the steps of the fetch and of the six instructions that change SP.
C21_ModularArithmetic ==
    [][/\ (Fetching /\ IsWord(sR_ProgramCounter))
          => sR_ProgramCounter' =
                RegOf((Val(sR_ProgramCounter)
                       + (IF sIR_InstrRegister'.iInstr_Spec \in UnarySet
                          THEN 1 ELSE 3)) % 65536)
       /\ (Executing /\ Mnemon = "eM_CALL" /\ WordMachine)
          => sR_StackPointer' = RegOf((SPWord - 2) % 65536)
       /\ (Executing /\ Mnemon = "eM_RETn" /\ WordMachine)
          => sR_StackPointer' =
                RegOf((SPWord + (sIR_InstrRegister.iInstr_Spec % 8) + 2) % 65536)
       /\ (Executing /\ Mnemon = "eM_ADDSP" /\ WordMachine /\ IsWord(R0'))
          => sR_StackPointer' = RegOf((SPWord + Val(R0')) % 65536)
       /\ (Executing /\ Mnemon = "eM_SUBSP" /\ WordMachine /\ IsWord(R0'))
          => sR_StackPointer' = RegOf((SPWord - Val(R0')) % 65536)
       /\ (Executing /\ Mnemon \in TrapMnemonics /\ WordMachine)
          => sR_StackPointer' = RegOf((SystemSPVector - 10) % 65536)
       /\ (Executing /\ Mnemon = "eM_RETTR" /\ WordMachine)
          => sR_StackPointer' =
                MemRead(iMemory, RegOf((SPWord + 7) % 65536))]_vars

\* The branch to 0xFFFF has been executed and the nonunary instruction
\* there fetched: PC went over the top of memory to 0x0002.
C21_Witness ==
    /\ trace = <<"eM_BR">>
    /\ Executing
    /\ OS = 1279
    /\ sIR_InstrRegister.iInstr_Spec = 240
    /\ sR_ProgramCounter = RegOf(2)

(***************************************************************************)
(* C22.  When CHARI, STr or STBYTEr is executed with immediate addressing, *)
(* the simulator raises the illegal-addressing-mode runtime error: the     *)
(* reported address is the address the instruction was fetched from (PC    *)
(* rewound by 3, modulo 65536), the execution loop halts without executing *)
(* another instruction, and memory, A, X, SP and the flags are unchanged;  *)
(* no other decoded instruction raises this error.                         *)
(***************************************************************************)
ImmediateRejected ==
    /\ Executing
    /\ Mnemon \in {"eM_CHARI", "eM_STr", "eM_STBYTEr"}
    /\ ModeThreeBits = "eA_IMMEDIATE"
    /\ IsWord(sR_ProgramCounter)

IllegalRaised == runError'.message = "Illegal addressing mode"

EndOfInputRaised ==
    runError'.message = "File read error or read past end of file."

FetchAddress == RegOf((Val(sR_ProgramCounter) - 3) % 65536)

HaltedUntouched ==
    /\ Halt'
    /\ runError'.LastLoc = FetchAddress
    /\ UNCHANGED <<iMemory, sR_Accumulator, sR_IndexRegister, sR_StackPointer,
                   bStatusN, bStatusZ, bStatusV, bStatusC>>

\* C22 as stated: every CHARI with immediate addressing raises the
\* illegal-addressing-mode error.
C22_AsStated ==
    [][/\ ImmediateRejected => (IllegalRaised /\ HaltedUntouched)
       /\ (Executing /\ ~ImmediateRejected) => ~IllegalRaised
       /\ Halt => trace' = trace]_vars

\* C22: CHARI reads its character before it looks at the addressing mode;
\* at the end of the input file it raises the read-past-end error instead,
\* with the same address, the same halt and the machine as untouched.
C22_IllegalAddressing ==
    [][/\ (ImmediateRejected /\ Mnemon # "eM_CHARI")
          => (IllegalRaised /\ HaltedUntouched)
       /\ (ImmediateRejected /\ Mnemon = "eM_CHARI")
          => ((IllegalRaised \/ EndOfInputRaised) /\ HaltedUntouched)
       /\ (Executing /\ ~ImmediateRejected) => ~IllegalRaised
       /\ (Executing /\ EndOfInputRaised) => Mnemon = "eM_CHARI"
       /\ Halt => trace' = trace]_vars

\* The branch to 0xFFFF and the STBYTEA with immediate addressing fetched
\* there have been executed: PC = 0x0002 is rewound over the top of memory.
C22_Witness ==
    /\ trace = <<"eM_BR", "eM_STBYTEr">>
    /\ Halt
    /\ sR_ProgramCounter = RegOf(2)
    /\ runError = [message |-> "Illegal addressing mode",
                   LastLoc |-> RegOf(65535)]

\* CHARI with immediate addressing at the end of the input file.
C22_EndOfInput ==
    /\ trace = <<"eM_CHARI">>
    /\ ModeThreeBits = "eA_IMMEDIATE"
    /\ Halt
    /\ runError.message = "File read error or read past end of file."

(***************************************************************************)
(* C23.  After any sequence of source lines, the symbol table holds each   *)
(* identifier at most once (compared case-sensitively) and is in ascending *)
(* identifier order; a line that declares an identifier already in the     *)
(* table is recorded as a 'symbol previously defined' error and leaves the *)
(* table's entries and values unchanged.                                   *)
(***************************************************************************)
SymbolTableSorted ==
    \A j \in 1..Len(pSymbol), k \in 1..Len(pSymbol) :
        j < k => strcmp(pSymbol[j].cSymID, pSymbol[k].cSymID) < 0

LineRead == srcLines'[Len(srcLines')]

Redeclaring ==
    /\ phase = "first pass" /\ iCodeIndex' = iCodeIndex + 1
    /\ LineRead # <<>>
    /\ Head(LineRead).type = "eT_SYMBOL"
    /\ \E k \in 1..Len(pSymbol) : pSymbol[k].cSymID = Head(LineRead).val

\* C23: the table is always strictly ascending, and the step of a line
\* that declares a symbol again.
C23_SymbolTable ==
    [][/\ SymbolTableSorted'
       /\ Redeclaring => /\ pACode'[Len(pACode')] = Error("eSymPrevDef")
                         /\ pSymbol' = pSymbol]_vars

\* alpha, then Alpha, then alpha again: the table holds Alpha before alpha,
\* both with their addresses, and the third line is the error.
C23_Witness ==
    /\ Len(pACode) = 3
    /\ pACode[3] = Error("eSymPrevDef")
    /\ Len(pSymbol) = 2
    /\ pSymbol[1].cSymID = "Alpha" /\ pSymbol[1].cSymValue = vDecToHexWord(1)
    /\ pSymbol[2].cSymID = "alpha" /\ pSymbol[2].cSymValue = vDecToHexWord(0)

(***************************************************************************)
(* The address counter.  A line is read for what it states: the statement  *)
(* is the line without the symbol it declares, and its size is the size    *)
(* the assembly language gives that statement.                             *)
(***************************************************************************)
StatementOf(line) ==
    IF line # <<>> /\ Head(line).type = "eT_SYMBOL" THEN Tail(line) ELSE line

OperandValue(tok) ==
    IF tok.type = "eT_HEXCONSTANT" THEN iHexWordToDecInt(tok.val) ELSE tok.val

StatementSize(line) ==
    LET st == StatementOf(line)
    IN  IF st = <<>> \/ st[1].type = "eT_COMMENT" THEN 0
        ELSE IF st[1].type = "eT_IDENTIFIER"
        THEN IF \E k \in vLookUpMnemon(st[1].val) : bIsUnary(cMnemonTable[k])
             THEN 1 ELSE 3
        ELSE CASE st[1].val = "BLOCK" -> OperandValue(st[2])
               [] st[1].val = "BYTE" -> 1
               [] st[1].val \in {"WORD", "ADDRSS"} -> 2
               [] st[1].val = "ASCII" -> Len(st[2].val)
               [] OTHER -> 0

ReadingLine == phase = "first pass" /\ iCodeIndex' = iCodeIndex + 1

Accepted == ~bIsError(pACode'[Len(pACode')])

DeclaredValue(cID) ==
    pSymbol'[CHOOSE k \in 1..Len(pSymbol') : pSymbol'[k].cSymID = cID].cSymValue

\* C24: the counter starts at 0; the step of an accepted line advances it
\* by the size of the line's statement, a .BLOCK 0 yields no byte, and the
\* symbol the line declares has the counter's value before the line, unless
\* the statement is an .EQUATE.
C24_AddressCounter ==
    [][/\ srcLines = <<>> => iCurrentAddress = 0
       /\ ReadingLine /\ Accepted =>
            /\ iCurrentAddress' = iCurrentAddress + StatementSize(LineRead)
            /\ StatementOf(LineRead) # <<>>
               /\ StatementOf(LineRead)[1].val = "BLOCK"
               /\ OperandValue(StatementOf(LineRead)[2]) = 0
               => HexCode(pACode'[Len(pACode')], pSymbol') = <<>>
            /\ LineRead # <<>> /\ Head(LineRead).type = "eT_SYMBOL"
               /\ StatementOf(LineRead)[1].val # "EQUATE"
               => DeclaredValue(Head(LineRead).val)
                  = vDecToHexWord(iCurrentAddress)]_vars

\* STOP, then alpha: .BLOCK 57, then .ASCII of three bytes: the counter is
\* at 61 and alpha is 0001.
C24_Witness ==
    /\ Len(srcLines) = 3
    /\ srcLines[1] = <<Tok("eT_IDENTIFIER", "STOP")>>
    /\ srcLines[2] = <<Tok("eT_SYMBOL", "alpha"), Tok("eT_DOTCOMMAND", "BLOCK"),
                       Tok("eT_DECCONSTANT", 57)>>
    /\ srcLines[3] # <<>>
    /\ Head(srcLines[3]) = Tok("eT_DOTCOMMAND", "ASCII")
    /\ iCurrentAddress = 61
    /\ pSymbol = <<[cSymID |-> "alpha", cSymValue |-> <<"0", "0", "0", "1">>,
                   iLine |-> 1]>>

(***************************************************************************)
(* .BURN.  The operand of the program's .BURN statement and the symbols    *)
(* its .EQUATE statements define are read from the source lines.           *)
(***************************************************************************)
IsDotLine(line, dot) ==
    /\ StatementOf(line) # <<>>
    /\ StatementOf(line)[1] = Tok("eT_DOTCOMMAND", dot)

BurnOperand ==
    OperandValue(StatementOf(srcLines[CHOOSE j \in 1..Len(srcLines) :
                                          IsDotLine(srcLines[j], "BURN")])[2])

EquateLiteral(cID) ==
    {vDecToHexWord(OperandValue(srcLines[j][3])) :
        j \in {i \in 1..Len(srcLines) :
                 /\ IsDotLine(srcLines[i], "EQUATE")
                 /\ Head(srcLines[i]) = Tok("eT_SYMBOL", cID)}}

Relocating ==
    /\ phase = "resolve" /\ phase' = "done"
    /\ iBurnCounter > 0
    /\ iErrorIndex = 0
    /\ bTerminate

Mod65536(n) == n % 65536

\* C25: in a program with .BURN k and no error the offset is k - (F - 1);
\* every statement address and every symbol that no .EQUATE defines moves
\* by it modulo 65536, the last byte of the program comes to stand at k,
\* and a symbol that an .EQUATE defines keeps the operand of its .EQUATE.
C25_BurnRelocation ==
    [][Relocating =>
         LET iOffset == BurnOperand - (iCurrentAddress - 1)
         IN  /\ iBurnStart' = iOffset
             /\ \A j \in 1..Len(pACode) :
                  pACode[j].kind # "ZeroArg" =>
                     /\ Mod65536(pACode'[j].iAddress)
                        = Mod65536(pACode[j].iAddress + iOffset)
                     /\ iAddressCounter(pACode[j]) > 0
                        /\ pACode[j].iAddress + iAddressCounter(pACode[j])
                           = iCurrentAddress
                        => Mod65536(pACode'[j].iAddress
                                    + iAddressCounter(pACode[j]) - 1)
                           = BurnOperand
             /\ Len(pSymbol') = Len(pSymbol)
             /\ \A j \in 1..Len(pSymbol) :
                  /\ pSymbol'[j].cSymID = pSymbol[j].cSymID
                  /\ IF EquateLiteral(pSymbol[j].cSymID) = {}
                     THEN iHexWordToDecInt(pSymbol'[j].cSymValue)
                          = Mod65536(iHexWordToDecInt(pSymbol[j].cSymValue)
                                     + iOffset)
                     ELSE pSymbol'[j].cSymValue
                          \in EquateLiteral(pSymbol[j].cSymID)]_vars

\* gamma: .EQUATE 7, .BURN 0xFFC7, alpha: .BLOCK 57 and .END: alpha has
\* moved from 0000 to FF8F and gamma is still 0007.
C25_Witness ==
    /\ phase = "done"
    /\ objectFile.written
    /\ iBurnCounter = 1
    /\ iBurnStart = 65423
    /\ pSymbol = <<[cSymID |-> "alpha", cSymValue |-> <<"F", "F", "8", "F">>,
                   iLine |-> 2],
                  [cSymID |-> "gamma", cSymValue |-> <<"0", "0", "0", "7">>,
                   iLine |-> 0]>>

\* The program of the example: .BURN 0xFFC7 and 57 bytes of code, at the
\* addresses 0x00 to 0x38 before the relocation.
RelocatingExample ==
    /\ Relocating
    /\ BurnOperand = 65479
    /\ iCurrentAddress = 57

MovedBy(iShift) ==
    \A j \in 1..Len(pSymbol) :
        EquateLiteral(pSymbol[j].cSymID) = {} =>
            iHexWordToDecInt(pSymbol'[j].cSymValue)
            = Mod65536(iHexWordToDecInt(pSymbol[j].cSymValue) + iShift)

\* C26 as stated: in the example every symbol that no .EQUATE defines moves
\* by 0xFFC7 - (0x38 - 1).
C26_AsStated == [][RelocatingExample => MovedBy(65479 - (56 - 1))]_vars

\* C26: in the example every symbol that no .EQUATE defines moves by
\* 0xFFC7 - 0x38, which is 0xFF8F.
C26_BurnExample == [][RelocatingExample => MovedBy(65479 - 56)]_vars

\* .BURN 0xFFC7, alpha: .BLOCK 57 and .END: alpha is FF8F.
C26_Witness ==
    /\ phase = "done"
    /\ srcLines = <<<<Tok("eT_DOTCOMMAND", "BURN"),
                      Tok("eT_HEXCONSTANT", <<"F", "F", "C", "7">>)>>,
                    <<Tok("eT_SYMBOL", "alpha"), Tok("eT_DOTCOMMAND", "BLOCK"),
                      Tok("eT_DECCONSTANT", 57)>>,
                    <<Tok("eT_DOTCOMMAND", "END")>>>>
    /\ iCurrentAddress = 57
    /\ pSymbol[1].cSymValue = <<"F", "F", "8", "F">>

\* The object file of a program with a .BURN statement, read line by line:
\* the bytes below(code) for a statement on a line before the .BURN line and
\* the statement's own bytes from the .BURN line on.
BurnLine == CHOOSE j \in 1..Len(srcLines) : IsDotLine(srcLines[j], "BURN")

IsStringWord(code) == code.kind = "DotComString" /\ code.dotcom = "WORD"

RECURSIVE BytesZeroFilled(_)
BytesZeroFilled(k) ==
    IF k > Len(pACode) THEN <<>>
    ELSE (IF k < BurnLine
          THEN ZeroBytes(iAddressCounter(pACode[k]))
          ELSE HexCode(pACode[k], pSymbol))
         \o BytesZeroFilled(k + 1)

RECURSIVE BytesFromBurn(_)
BytesFromBurn(k) ==
    IF k > Len(pACode) THEN <<>>
    ELSE (IF k < BurnLine /\ ~IsStringWord(pACode[k])
          THEN <<>>
          ELSE HexCode(pACode[k], pSymbol))
         \o BytesFromBurn(k + 1)

BurnObjectFile == phase = "done" /\ objectFile.written /\ iBurnCounter > 0

\* C27 as stated: a statement before the .BURN line is written as one 00
\* for each of its bytes.
C27_AsStated ==
    BurnObjectFile => objectFile.bytes = BytesZeroFilled(1) \o <<<<"z", "z">>>>

\* C27: a statement before the .BURN line is not written at all, a .WORD
\* with a string operand excepted, which is written in full; the object
\* file holds the bytes of the statements from the .BURN line on.
C27_BurnEmission ==
    BurnObjectFile => objectFile.bytes = BytesFromBurn(1) \o <<<<"z", "z">>>>

\* STOP, .BURN 0xFFC7, LDA 5,i and .END: the object file is C0 00 05 zz.
C27_Witness ==
    /\ BurnObjectFile
    /\ srcLines[1] = <<Tok("eT_IDENTIFIER", "STOP")>>
    /\ BurnLine = 2
    /\ objectFile.bytes = <<<<"C", "0">>, <<"0", "0">>, <<"0", "5">>,
                            <<"z", "z">>>>

(***************************************************************************)
(* Symbol resolution.  The identifier a line uses as the operand of an     *)
(* instruction or of .ADDRSS is read from the line.                        *)
(***************************************************************************)
OperandIdentifier(line) ==
    LET st == StatementOf(line)
    IN  IF /\ Len(st) >= 2
           /\ st[2].type = "eT_IDENTIFIER"
           /\ \/ st[1] = Tok("eT_DOTCOMMAND", "ADDRSS")
              \/ /\ st[1].type = "eT_IDENTIFIER"
                 /\ \E k \in vLookUpMnemon(st[1].val) :
                       ~bIsUnary(cMnemonTable[k])
        THEN {st[2].val}
        ELSE {}

Declared(cID) == \E k \in 1..Len(pSymbol) : pSymbol[k].cSymID = cID

UsesUndeclared(j) == \E cID \in OperandIdentifier(srcLines[j]) : ~Declared(cID)

\* The line parses without error where nothing is declared yet.
ParsesAlone(line) ==
    ~bIsError(vProcessSourceLine(line, 0, 0, <<>>, <<>>, FALSE, NoBurn).code)

\* The run has ended on a program whose only faults are the undeclared
\* operand of line j and the missing .END.
OnlyUndeclaredAndNoEnd(j) ==
    /\ phase = "done"
    /\ ~bTerminate
    /\ UsesUndeclared(j)
    /\ \A k \in 1..Len(srcLines) :
          /\ ParsesAlone(srcLines[k])
          /\ k # j => ~bIsError(pACode[k])

TwoErrors(j, iEndLine) ==
    /\ iErrorIndex = 2
    /\ pACode[j] = Error("eSymNotDefined")
    /\ iLineErrors[0] = j - 1
    /\ Len(pACode) = Len(srcLines) + 1
    /\ pACode[Len(srcLines) + 1] = Error("eNoEnd")
    /\ iLineErrors[1] = iEndLine
    /\ ~objectFile.written

Resolved ==
    \A j \in 1..Len(srcLines) :
        /\ UsesUndeclared(j) => pACode[j] = Error("eSymNotDefined")
        /\ OperandIdentifier(srcLines[j]) # {} /\ ~UsesUndeclared(j)
           => pACode[j] # Error("eSymNotDefined")

C28_ForwardReference ==
    /\ phase = "done"
    /\ srcLines = <<<<Tok("eT_DOTCOMMAND", "ADDRSS"),
                      Tok("eT_IDENTIFIER", "beta")>>,
                    <<Tok("eT_SYMBOL", "beta"), Tok("eT_DOTCOMMAND", "END")>>>>
    /\ objectFile.bytes = <<<<"0", "0">>, <<"0", "2">>, <<"z", "z">>>>

(***************************************************************************)
(* The addressing modes of a mnemonic, as the assembly language states     *)
(* them.                                                                   *)
(***************************************************************************)
BranchNames ==
    {"BR", "BRLE", "BRLT", "BREQ", "BRNE", "BRGE", "BRGT", "BRV", "BRC",
     "CALL"}

NoImmediateNames == {"CHARI", "STA", "STX", "STBYTEA", "STBYTEX"}

RegistryModes(iAddrMode) ==
    {a \in AddrModes : (iAddrMode \div ModeBit(a)) % 2 = 1}

StatedUnary(m) ==
    \/ m.op = "UnaryOp"
    \/ m.op = "Unimp" /\ (m.k < UNARY_TRAPS \/ sUnimpMnemon[m.k + 1] = 0)

StatedModes(m) ==
    IF StatedUnary(m) THEN {}
    ELSE IF m.id \in BranchNames THEN {"i", "x"}
    ELSE IF m.id \in NoImmediateNames THEN AddrModes \ {"i"}
    ELSE IF m.op = "Unimp" THEN RegistryModes(sUnimpMnemon[m.k + 1])
    ELSE AddrModes

Assembled == codec.stage \in {"assembled", "rejected"}

StatementMnemonic ==
    cMnemonTable[CHOOSE k \in vLookUpMnemon(codec.line[1].val) : TRUE]

LineIsError == bIsError(pACode'[Len(pACode')])

Overflowed ==
    pACode'[Len(pACode')] \in {Error("eTooLong"), Error("eProgTooLong")}

EndRead == IsDotLine(LineRead, "END")

ErrorRecorded ==
    /\ iLineErrors'[iErrorIndex] = iCodeIndex
    /\ iErrorIndex' = iErrorIndex + 1

\* The first pass has not met .END and the file has a further line: the
\* line, whichever it is, can be read.
NextLineRead ==
    /\ phase = "first pass"
    /\ iCodeIndex < PrefixLines + MaxLines
    /\ \A j \in 1..Len(srcLines) : ~IsDotLine(srcLines[j], "END")
    => \A line \in LongLines : ENABLED ReadLine({line}, PrefixLines + MaxLines)

\* C30 as stated: whatever errors the lines read contain, the next line can
\* be read; the step of a line records the line's error, and only the .END
\* line ends the first pass.
C30_AsStated ==
    [][/\ NextLineRead
       /\ ReadingLine => /\ LineIsError => ErrorRecorded
                         /\ bTerminate' <=> EndRead]_vars

\* Before .END and before an overflow the next line can be read.
NextLineReadUnlessOverflow ==
    /\ phase = "first pass"
    /\ iCodeIndex < PrefixLines + MaxLines
    /\ \A j \in 1..Len(srcLines) : ~IsDotLine(srcLines[j], "END")
    /\ \A j \in 1..Len(pACode) :
          pACode[j] \notin {Error("eTooLong"), Error("eProgTooLong")}
    => \A line \in LongLines : ENABLED ReadLine({line}, PrefixLines + MaxLines)

\* C30: whatever other errors the lines read contain, the next line can be
\* read and the step of a line records the line's error; the first pass
\* ends with the .END line and with the line that is the error eTooLong or
\* eProgTooLong, and with no other line.
C30_ErrorsDoNotStop ==
    [][/\ NextLineReadUnlessOverflow
       /\ ReadingLine => /\ LineIsError => ErrorRecorded
                         /\ bTerminate' <=> (EndRead \/ Overflowed)]_vars

\* FOO twice after the prefix: both errors are recorded and the first pass
\* goes on.
C30_Witness ==
    /\ phase = "first pass"
    /\ Len(srcLines) = PrefixLines + 2
    /\ \A k \in 1..PrefixLines : pACode[k] = ReadPrefix(k).code
    /\ ReadPrefix(PrefixLines).addr = iCurrentAddress
    /\ srcLines[PrefixLines + 1] = <<Tok("eT_IDENTIFIER", "FOO")>>
    /\ srcLines[PrefixLines + 2] = <<Tok("eT_IDENTIFIER", "FOO")>>
    /\ iErrorIndex = 2
    /\ iLineErrors[0] = PrefixLines /\ iLineErrors[1] = PrefixLines + 1
    /\ ~bTerminate

(***************************************************************************)
(* The status the assembler leaves to the shell.                           *)
(***************************************************************************)
\* C31: when the assembly ends with errors in the list, the missing .END
\* among them, main returns a status other than 0.
C31_AsStated ==
    mainReturn.returned /\ iErrorIndex > 0 => mainReturn.value # 0

\* What main does: the status is 0 with errors in the list as without.
C31_ReturnsZero == mainReturn.returned => mainReturn.value = 0

\* The source file is the line FOO: two errors, and main has returned.
C31_Witness ==
    /\ mainReturn.returned
    /\ srcLines = <<<<Tok("eT_IDENTIFIER", "FOO")>>>>
    /\ iErrorIndex = 2
    /\ ~objectFile.written

(***************************************************************************)
(* A string for the operand of .WORD.                                      *)
(***************************************************************************)
IsWordString(line) ==
    /\ Len(line) = 2
    /\ line[1] = Tok("eT_DOTCOMMAND", "WORD")
    /\ line[2].type = "eT_STRING"

\* The number of object bytes of the string on the line.
StringBytes(line) == Len(line[2].val)

WordStringRead == ReadingLine /\ IsWordString(LineRead)

\* C32 as stated: .WORD takes a string of at most 4 object bytes, and a
\* longer one is the error eWordStrTooLong.
C32_AsStated ==
    [][WordStringRead =>
         /\ Accepted <=> StringBytes(LineRead) <= 4
         /\ ~Accepted => pACode'[Len(pACode')] = Error("eWordStrTooLong")]_vars

\* C32: .WORD takes a string of at most 2 object bytes (4 hexadecimal
\* digits): a string of 2 bytes is accepted and the counter advances by 2,
\* a string of 3 bytes or more is the error eWordStrTooLong.
C32_WordString ==
    [][WordStringRead =>
         /\ Accepted <=> StringBytes(LineRead) <= WORD
         /\ Accepted => iCurrentAddress' = iCurrentAddress + WORD
         /\ ~Accepted => pACode'[Len(pACode')] = Error("eWordStrTooLong")]_vars

\* .WORD with a string of 2 bytes, then with a string of 3 bytes: the first
\* is accepted, the second is the error.
C32_Witness ==
    /\ Len(srcLines) = 2
    /\ IsWordString(srcLines[1]) /\ StringBytes(srcLines[1]) = 2
    /\ IsWordString(srcLines[2]) /\ StringBytes(srcLines[2]) = 3
    /\ ~bIsError(pACode[1])
    /\ pACode[2] = Error("eWordStrTooLong")
    /\ iCurrentAddress = 2

(***************************************************************************)
(* A decimal constant for a 16-bit value.                                  *)
(***************************************************************************)
\* The line is an instruction, a .WORD or an .EQUATE with a decimal constant
\* for its operand, and the constant is not in -32768..65535.
DecimalOutOfRange(line) ==
    LET st == StatementOf(line)
    IN  /\ Len(st) >= 2
        /\ st[2].type = "eT_DECCONSTANT"
        /\ st[2].val < MIN_DEC \/ st[2].val > MAX_DEC
        /\ \/ st[1].type = "eT_IDENTIFIER"
           \/ st[1] = Tok("eT_DOTCOMMAND", "WORD")
           \/ st[1] = Tok("eT_DOTCOMMAND", "EQUATE") /\ Len(line) = 3

\* C33: the step of a line whose decimal constant is out of range makes the
\* line the error eDecOverflow, after an instruction, after .WORD and after
\* .EQUATE, and declares no symbol.
C33_AsStated ==
    [][ReadingLine /\ pSymbol = <<>> /\ DecimalOutOfRange(LineRead) =>
         /\ pACode'[Len(pACode')] = Error("eDecOverflow")
         /\ iCurrentAddress' = iCurrentAddress]_vars

\* What the code does: after an instruction and after .WORD the constant
\* out of range is the error; after .EQUATE it is accepted and the symbol
\* takes the constant modulo 65536.
C33_EquateUnchecked ==
    [][ReadingLine /\ pSymbol = <<>> /\ DecimalOutOfRange(LineRead) =>
         IF IsDotLine(LineRead, "EQUATE")
         THEN /\ Accepted
              /\ DeclaredValue("gamma")
                 = vDecToHexWord(Mod65536(StatementOf(LineRead)[2].val))
         ELSE pACode'[Len(pACode')] = Error("eDecOverflow")]_vars

\* gamma: .EQUATE 65536, then LDA gamma,i, then .END: the object file loads
\* the accumulator with 0.
C33_Witness ==
    /\ objectFile.written
    /\ Len(srcLines) = 3
    /\ srcLines[1] = <<Tok("eT_SYMBOL", "gamma"), Tok("eT_DOTCOMMAND", "EQUATE"),
                       Tok("eT_DECCONSTANT", MAX_DEC + 1)>>
    /\ objectFile.bytes = <<<<"C", "0">>, <<"0", "0">>, <<"0", "0">>,
                            <<"z", "z">>>>

(***************************************************************************)
(* The characters of the object file.                                      *)
(***************************************************************************)
\* The number of bytes of the object file, the sentinel zz not counted.
ObjectBytes == Len(objectFile.bytes) - 1

UpperHexDigits ==
    {"0", "1", "2", "3", "4", "5", "6", "7", "8", "9",
     "A", "B", "C", "D", "E", "F"}

IsByte(i) == i >= 0 /\ i <= 255

HalvesAreBytes(r) == IsByte(r.iHigh) /\ IsByte(r.iLow)

\* C35: the two halves of A, X, SP and PC and every memory cell are in
\* 0..255 in every state of every execution.
C35_AsStated ==
    /\ HalvesAreBytes(sR_Accumulator)
    /\ HalvesAreBytes(sR_IndexRegister)
    /\ HalvesAreBytes(sR_StackPointer)
    /\ HalvesAreBytes(sR_ProgramCounter)
    /\ \A i \in DOMAIN iMemory : IsByte(iMemory[i])

\* The three ways out of the byte range: NEGr leaves 256 in the low half,
\* ROLr leaves a half above 255, CHARI stores a negative cell.
C35_NegLeaves256 ==
    ~(LastExecuted = "eM_NEGr" /\ sR_Accumulator.iLow = 256)

C35_RolLeavesDouble ==
    ~(LastExecuted = "eM_ROLr" /\ sR_Accumulator.iHigh > 255)

C35_ChariStoresNegative ==
    ~(LastExecuted = "eM_CHARI" /\ \E i \in DOMAIN iMemory : iMemory[i] < 0)

(***************************************************************************)
(* The list of the lines in error after the symbols are resolved.          *)
(***************************************************************************)
SymbolsResolved == phase = "resolve" /\ pUndeclaredSym = <<>>

\* The lines, counted from 0, whose code object is an error.
ErroneousLines == {j - 1 : j \in {i \in 1..Len(pACode) : bIsError(pACode[i])}}

ErrorListAscending ==
    \A k \in 1..(iErrorIndex - 1) : iLineErrors[k - 1] < iLineErrors[k]

ErrorListEntries == {iLineErrors[k] : k \in 0..(iErrorIndex - 1)}

\* C36: after the resolution the first iErrorIndex cells of iLineErrors are
\* strictly ascending and are the lines in error, each once.
C36_AsStated ==
    SymbolsResolved =>
        /\ ErrorListAscending
        /\ ErrorListEntries = ErroneousLines
        /\ iErrorIndex = Cardinality(ErroneousLines)

\* What the code keeps: the cells found in the list are ascending and are
\* lines in error, and the count is never below the number of those lines.
C36_CountNotBelow ==
    SymbolsResolved =>
        /\ \A k \in 0..(iErrorIndex - 1) :
              iLineErrors[k] # Uninit => iLineErrors[k] \in ErroneousLines
        /\ iErrorIndex >= Cardinality(ErroneousLines)

\* STA gamma,i alone: the line is in error in the first pass and its symbol
\* is undefined; the count is 2 for one line in error and the second cell
\* was never written.
C36_Witness ==
    /\ SymbolsResolved
    /\ srcLines = <<<<Tok("eT_IDENTIFIER", "STA"), Tok("eT_IDENTIFIER", "gamma"),
                      Tok("eT_ADDRMODE", "i")>>>>
    /\ ErroneousLines = {0}
    /\ iErrorIndex = 2
    /\ iLineErrors[1] = Uninit

(***************************************************************************)
(* The bytes of the object file against the address counter.               *)
(***************************************************************************)
\* The address counter before line k of the source, from the sizes of the
\* statements before it.
RECURSIVE AddressBefore(_)
AddressBefore(k) ==
    IF k <= 1 THEN 0
    ELSE AddressBefore(k - 1) + StatementSize(srcLines[k - 1])

ObjectFileWritten == phase = "done" /\ objectFile.written

\* Every statement of the program has as many bytes as its line advanced
\* the counter.
StatementBytes ==
    \A k \in 1..Len(srcLines) :
        Len(HexCode(pACode[k], pSymbol)) = StatementSize(srcLines[k])

\* C37: in a program without error every statement has as many bytes as it
\* advanced the counter; the object file of a program without .BURN holds F
\* bytes, F the final counter, and the object file of a program with .BURN
\* holds F - B bytes, B the counter at the .BURN line, whatever statements
\* stand before that line.
C37_AsStated ==
    ObjectFileWritten =>
        /\ StatementBytes
        /\ ObjectBytes = IF iBurnCounter = 0 THEN iCurrentAddress
                         ELSE iCurrentAddress - AddressBefore(BurnLine)

\* What the code does: with .BURN the object file holds the F - B bytes and
\* 2 bytes more for every .WORD with a string operand before the .BURN line.
StringWordsBeforeBurn ==
    {k \in 1..(BurnLine - 1) : IsStringWord(pACode[k])}

C37_StringWordEmitted ==
    ObjectFileWritten =>
        /\ StatementBytes
        /\ ObjectBytes = IF iBurnCounter = 0 THEN iCurrentAddress
                         ELSE iCurrentAddress - AddressBefore(BurnLine)
                              + WORD * Cardinality(StringWordsBeforeBurn)

\* beta: .WORD "Hi", then .BURN 0xFFC7, then .END: F = 2 and B = 2, and the
\* object file holds the two bytes of the string.
C37_Witness ==
    /\ ObjectFileWritten
    /\ Len(srcLines) = 3
    /\ iBurnCounter > 0
    /\ IsDotLine(srcLines[2], "BURN")
    /\ IsStringWord(pACode[1])
    /\ iCurrentAddress = 2
    /\ objectFile.bytes = <<<<"4", "8">>, <<"6", "9">>, <<"z", "z">>>>

\* C38 -- the trap file.  For each of the lines five to eight read, the
\* modes the registry holds are the distinct addressing-mode codes written
\* on the line, whatever their case, their order and however often each is
\* written; for each of the lines one to four the registry holds no mode.
LowerChar(ch) ==
    CASE ch = "I" -> "i"
      [] ch = "D" -> "d"
      [] ch = "N" -> "n"
      [] ch = "S" -> "s"
      [] ch = "F" -> "f"
      [] ch = "X" -> "x"
      [] OTHER -> ch

\* The addressing-mode code spelled by the characters lo..hi of a line, or
\* "" when they spell none.
CodeSpelled(cLine, lo, hi) ==
    LET w == [k \in 1..(hi - lo + 1) |-> LowerChar(cLine[lo + k - 1])]
    IN  CASE w = <<"i">> -> "i"
          [] w = <<"d">> -> "d"
          [] w = <<"n">> -> "n"
          [] w = <<"x">> -> "x"
          [] w = <<"s">> -> "s"
          [] w = <<"s", "f">> -> "sf"
          [] w = <<"s", "x">> -> "sx"
          [] w = <<"s", "x", "f">> -> "sxf"
          [] OTHER -> ""

\* Where the words after the first word of a line begin.
ModeWords(cLine) ==
    {k \in 2..Len(cLine) :
        /\ ~isspace(cLine[k])
        /\ isspace(cLine[k - 1])
        /\ \E j \in 1..(k - 1) : ~isspace(cLine[j])}

CodeAt(cLine, lo) == CodeSpelled(cLine, lo, SkipWord(cLine, lo) - 1)

ModesWritten(cLine) ==
    {CodeAt(cLine, lo) : lo \in ModeWords(cLine)} \cap AddrModes

C38_AsStated ==
    \A k \in 1..Len(trapLines) :
        IF k <= UNARY_TRAPS
        THEN sUnimpMnemon[k] = 0
        ELSE RegistryModes(sUnimpMnemon[k]) = ModesWritten(trapLines[k])

\* A code written once is stored, in any case and order; the lines one to
\* four store none.
WrittenOnce(cLine) ==
    \A lo \in ModeWords(cLine), lo2 \in ModeWords(cLine) :
        CodeAt(cLine, lo) = CodeAt(cLine, lo2) => lo = lo2

C38_CodesWrittenOnce ==
    \A k \in 1..Len(trapLines) :
        IF k <= UNARY_TRAPS
        THEN sUnimpMnemon[k] = 0
        ELSE WrittenOnce(trapLines[k]) =>
                RegistryModes(sUnimpMnemon[k]) = ModesWritten(trapLines[k])

\* A line that writes sf twice is read as s and sf.
C38_Witness ==
    /\ Len(trapLines) > UNARY_TRAPS
    /\ trapLines[Len(trapLines)] = TrapText(<<"sf", "SF">>)
    /\ RegistryModes(sUnimpMnemon[Len(trapLines)]) = {"s", "sf"}

\* C39 -- quit at a trace prompt.  The step in which the user answers quit,
\* at the prompt of a full page or at the single-step prompt, sets the halt
\* flag and leaves the simulator at its menu with the trace mode off; from
\* then on no instruction is fetched or executed until a command starts
\* another run.
QuitAnswered == cycle = "trace" /\ traceAnswer' = "Q"

AtMenu == Halt /\ cycle = "fetch" /\ eTraceMode = "eT_TR_OFF"

RunStarted == ~Halt' /\ traceAnswer' = ""

NothingFetched ==
    UNCHANGED <<cycle, trace, sIR_InstrRegister, sR_ProgramCounter,
                TraceAddr>>

C39_QuitEndsRun ==
    [][/\ QuitAnswered => (Halt' /\ AtMenu')
       /\ traceAnswer = "Q" => (AtMenu /\ (RunStarted \/ NothingFetched))]_vars

\* The user quits at the single-step prompt after the third instruction of
\* an endless loop, which a fourth fetch would have continued.
C39_Witness ==
    /\ traceAnswer = "Q"
    /\ AtMenu
    /\ trace = <<"eM_BR", "eM_BR", "eM_BR">>
    /\ iLineCount = numTerminalLines
    /\ Len(trace) < MaxTraced

\* The user quits at the prompt of the full page.
C39_PagedQuit ==
    /\ traceAnswer = "Q"
    /\ AtMenu
    /\ trace = <<"eM_BR", "eM_BR">>
    /\ iLineCount = numTerminalLines

\* C40 -- the dump.  For a range whose start does not lie above its end,
\* Dump ends; when it has ended it has printed the rows of sixteen cells
\* from the start rounded down to a multiple of sixteen through the row
\* that holds the end, the row 0xFFF0..0xFFFF included, each cell from 0x20
\* to 0x7E as its character and every other cell as a point; and no step of
\* the dump changes the memory or a register.
Dumping == dump.pc = "loop"

DumpEnded == dump.pc = "menu" /\ dump.asked # <<>>

WordOfHex(cHexWord) ==
    iHexByteToDecInt(SubSeq(cHexWord, 1, 2)) * 256
    + iHexByteToDecInt(SubSeq(cHexWord, 3, 4))

FirstRow == (Val(dump.asked[1]) \div 16) * 16

LastRow == (Val(dump.asked[2]) \div 16) * 16

ShownAs(iCell) == IF iCell \in 32..126 THEN iCell ELSE 46

RowsAsStated ==
    /\ Len(dump.output) = ((LastRow - FirstRow) \div 16) + 1
    /\ \A k \in 1..Len(dump.output) :
          LET first == FirstRow + 16 * (k - 1)
          IN  /\ WordOfHex(dump.output[k].cHexWord) = first
              /\ \A i \in 1..16 :
                    /\ dump.output[k].ascii[i] =
                          ShownAs(Cell(iMemory, first + i - 1))
                    /\ iHexByteToDecInt(dump.output[k].cHexByte[i]) =
                          Cell(iMemory, first + i - 1)

MachineUnchanged ==
    UNCHANGED <<iMemory, sR_Accumulator, sR_IndexRegister, sR_StackPointer,
                sR_ProgramCounter, sIR_InstrRegister, bStatusN, bStatusZ,
                bStatusV, bStatusC>>

C40_Dump ==
    /\ [](DumpEnded => RowsAsStated)
    /\ [][dump' # dump => MachineUnchanged]_vars
    /\ (Dumping ~> DumpEnded)

\* The dump of 0xFFE5..0xFFFF has ended with the rows 0xFFE0 and 0xFFF0.
C40_Witness ==
    /\ DumpEnded
    /\ Val(dump.asked[1]) = TOP_OF_MEMORY - 26
    /\ Val(dump.asked[2]) = TOP_OF_MEMORY
    /\ Len(dump.output) = 2
    /\ WordOfHex(dump.output[2].cHexWord) = TOP_OF_MEMORY - 15
    /\ dump.Carry
    /\ \E i \in 1..16 : dump.output[1].ascii[i] # 46

\* The cells 31, 32, 126 and 127 have all been dumped, each in its row.
C40_EdgeCells ==
    /\ DumpEnded
    /\ \E k \in 1..Len(dump.output), i \in 1..16 :
          /\ iHexByteToDecInt(dump.output[k].cHexByte[i]) \in {31, 127}
          /\ dump.output[k].ascii[i] = 46
    /\ \E k \in 1..Len(dump.output), i \in 1..16 :
          /\ iHexByteToDecInt(dump.output[k].cHexByte[i]) \in {32, 126}
          /\ dump.output[k].ascii[i] # 46

====
